---------------------------- MODULE Spec2Model ----------------------------
(***************************************************************************)
(* A model of the reuse-distance GPU cache model (tue-es/gpu-cache-model). *)
(*                                                                         *)
(* Spec            : one call of reuse_distance (reusedistance.cpp) on a   *)
(*                   coalesced trace, for one of the parameter vectors of  *)
(*                   main (model.cpp).                                     *)
(* LiveSpec        : Spec with weak fairness of the engine's steps.        *)
(* ClassifierSpec  : output_miss_rate (io.cpp) on four histograms.         *)
(***************************************************************************)
EXTENDS Integers, Sequences, FiniteSets, TLC

(***************************************************************************)
(* Program constants (model.h)                                             *)
(***************************************************************************)
INF == 99999999
STACK_EXTRA_SIZE == 256
NON_MEM_LATENCY == 0
NUM_CORES == 1
NUM_CASES == 4

(***************************************************************************)
(* Bounds of the model                                                     *)
(***************************************************************************)
\* total number of accesses (loads) in a trace file
MaxTotal == 3
\* largest value of |round(normal(0,stddev))| drawn for one miss
MaxNoise == 1
\* total frequency of one histogram handed to the classifier
MaxHistTotal == 2
\* the loop of reuse_distance is followed for at most MaxTime ticks
MaxTime == 24

\* thread ids a trace file may name
Tids == 0 .. 2
\* the loads a trace line may describe: <address, bytes>
\*   address 0,  4 bytes : line 0
\*   address 16, 4 bytes : line 2
\*   address 12, 8 bytes : lines 1 and 2 (straddles a line boundary)
Kinds == { [address |-> 0, bytes |-> 4],
           [address |-> 16, bytes |-> 4],
           [address |-> 12, bytes |-> 8] }
\* the first line of the trace file, "blocksize: X Y Z"
blockdim == [x |-> 2, y |-> 1, z |-> 1]
\* main: blocksize = blockdim.x*blockdim.y*blockdim.z
BlockSize == blockdim.x * blockdim.y * blockdim.z
\* the values of the setting max_active_blocks
MaxActiveBlocks == {1, 8}

\* Settings as get_settings builds them from the configuration file, scaled
\* down: a cache of two lines of 8 bytes, direct mapped, one MSHR, warps of
\* two threads.
hardware ==
  [ line_size |-> 8, cache_bytes |-> 16, cache_lines |-> 2, cache_ways |-> 1,
    cache_sets |-> 2, num_mshr |-> 1, num_cores |-> NUM_CORES, warp_size |-> 2,
    max_active_threads |-> 1536, mem_latency |-> 1, mem_latency_stddev |-> 1 ]

Max(a, b) == IF a > b THEN a ELSE b
Min(a, b) == IF a < b THEN a ELSE b
\* F applied to the value of x: x is evaluated once, as an assignment to a
\* local variable is
Bind(x, F(_)) == CHOOSE r \in { F(v) : v \in {x} } : TRUE

CeilDiv(a, b) == (a + b - 1) \div b

RECURSIVE SumSeq(_)
SumSeq(s) == IF s = <<>> THEN 0 ELSE Head(s) + SumSeq(Tail(s))

RECURSIVE SumFun(_, _)
SumFun(f, D) ==
  IF D = {} THEN 0
  ELSE LET x == CHOOSE y \in D : TRUE IN f[x] + SumFun(f, D \ {x})

(***************************************************************************)
(* tree.h : the partial sum-hierarchy tree.  A node is named by the range  *)
(* of leaves below it, <<start, size>>; node values are kept sparsely      *)
(* (a node that is absent holds 0).  Node values are unsigned in the code;  *)
(* a value below 0 here stands for the wrapped value 2^32 + value.         *)
(***************************************************************************)
Tree(_size) == [size |-> _size, val |-> <<>>]

Root(t) == <<0, t.size>>
IsLeaf(n) == n[2] <= 1
Left(n) == <<n[1], CeilDiv(n[2], 2)>>
Right(n) == <<n[1] + CeilDiv(n[2], 2), n[2] \div 2>>
RangeB(n) == n[1] + n[2] - 1

NodeValue(t, n) == IF n \in DOMAIN t.val THEN t.val[n] ELSE 0
SetNodeValue(t, n, v) ==
  [t EXCEPT !.val =
     [m \in (IF v = 0 THEN DOMAIN t.val \ {n} ELSE DOMAIN t.val \cup {n}) |->
        IF m = n THEN v ELSE t.val[m]]]

RECURSIVE TreeCountFrom(_, _, _, _)
TreeCountFrom(t, node, target, result) ==
  IF ~IsLeaf(node) /\ NodeValue(t, node) # 0
  THEN IF target > RangeB(Left(node))
       THEN Bind(Right(node), LAMBDA right :
              TreeCountFrom(t, right, target, result))
       ELSE Bind(<<Left(node), result + NodeValue(t, Right(node))>>, LAMBDA a :
              TreeCountFrom(t, a[1], target, a[2]))
  ELSE result

\* a faulty count that includes the target's own leaf (C28 depends on the
\* count being of the leaves strictly right of the target)
TreeCountInclusive(t, target) ==
  Cardinality({ i \in target .. (t.size - 1) : NodeValue(t, <<i, 1>>) = 1 })

TreeCount(t, target) ==
  Bind(<<t, Root(t)>>, LAMBDA a : TreeCountFrom(a[1], a[2], target, 0))

RECURSIVE TreeSetFrom(_, _, _)
TreeSetFrom(t, node, target) ==
  IF ~IsLeaf(node)
  THEN Bind(<<SetNodeValue(t, node, NodeValue(t, node) + 1),
              IF target > RangeB(Left(node)) THEN Right(node) ELSE Left(node)>>,
            LAMBDA a : TreeSetFrom(a[1], a[2], target))
  ELSE SetNodeValue(t, node, 1)

TreeSet(t, target) ==
  Bind(<<t, Root(t)>>, LAMBDA a : TreeSetFrom(a[1], a[2], target))

RECURSIVE TreeUnsetFrom(_, _, _)
TreeUnsetFrom(t, node, target) ==
  IF ~IsLeaf(node)
  THEN Bind(<<SetNodeValue(t, node, NodeValue(t, node) - 1),
              IF target > RangeB(Left(node)) THEN Right(node) ELSE Left(node)>>,
            LAMBDA a : TreeUnsetFrom(a[1], a[2], target))
  ELSE SetNodeValue(t, node, 0)

\* a faulty unset that clears the leaf and leaves the counts of the nodes
\* above it (C38 depends on the decrement along the path)
TreeUnsetLeafOnly(t, target) == SetNodeValue(t, <<target, 1>>, 0)

TreeUnset(t, target) ==
  Bind(<<t, Root(t)>>, LAMBDA a : TreeUnsetFrom(a[1], a[2], target))

(***************************************************************************)
(* associativity.cpp : cache-line address to set (MAPPING_TYPE 2, Fermi)   *)
(***************************************************************************)
Bit(x, i) == (x \div (2 ^ i)) % 2

\* bitwise exclusive or of two 5-bit numbers
Xor5(a, b) ==
  LET x(i) == (Bit(a, i) + Bit(b, i)) % 2
  IN x(0) + 2 * x(1) + 4 * x(2) + 8 * x(3) + 16 * x(4)

\* a faulty mapping that returns the hash without reducing it modulo the
\* number of sets (C17 depends on the final modulo)
line_addr_to_set_unreduced(line_addr, num_sets) ==
  LET b01234 == Bit(line_addr, 0) + Bit(line_addr, 1) * 2 + Bit(line_addr, 2) * 4
                + Bit(line_addr, 3) * 8 + Bit(line_addr, 4) * 16
      b678AC == Bit(line_addr, 6) + Bit(line_addr, 7) * 2 + Bit(line_addr, 8) * 4
                + Bit(line_addr, 10) * 8 + Bit(line_addr, 12) * 16
  IN Xor5(b01234, b678AC) + Bit(line_addr, 5) * 32

\* a faulty mapping that takes bit 9 of the line address where the code
\* takes bit 10 (C29 depends on the bits chosen)
line_addr_to_set_bit9(line_addr, num_sets) ==
  LET b01234 == Bit(line_addr, 0) + Bit(line_addr, 1) * 2 + Bit(line_addr, 2) * 4
                + Bit(line_addr, 3) * 8 + Bit(line_addr, 4) * 16
      b678AC == Bit(line_addr, 6) + Bit(line_addr, 7) * 2 + Bit(line_addr, 8) * 4
                + Bit(line_addr, 9) * 8 + Bit(line_addr, 12) * 16
      set == Xor5(b01234, b678AC) + Bit(line_addr, 5) * 32
  IN set % num_sets

line_addr_to_set(line_addr, num_sets) ==
  LET b01234 == Bit(line_addr, 0) + Bit(line_addr, 1) * 2 + Bit(line_addr, 2) * 4
                + Bit(line_addr, 3) * 8 + Bit(line_addr, 4) * 16
      b678AC == Bit(line_addr, 6) + Bit(line_addr, 7) * 2 + Bit(line_addr, 8) * 4
                + Bit(line_addr, 10) * 8 + Bit(line_addr, 12) * 16
      set == Xor5(b01234, b678AC) + Bit(line_addr, 5) * 32
  IN set % num_sets


(***************************************************************************)
(* model.h : Access, as read_file builds it from one trace line            *)
(***************************************************************************)
Access(k) ==
  [ direction |-> 0, address |-> k.address, width |-> 1, bytes |-> k.bytes,
    end_address |-> k.address + k.bytes - 1 ]

LineOf(address) == address \div hardware.line_size

\* every line address an access of the model can touch
Lines == UNION { {LineOf(k.address), LineOf(k.address + k.bytes - 1)} : k \in Kinds }

(***************************************************************************)
(* scheduler.cpp : threads to warps, warps to blocks, blocks to cores      *)
(***************************************************************************)
RECURSIVE SortedSeq(_)
SortedSeq(S) ==
  IF S = {} THEN <<>>
  ELSE LET m == CHOOSE x \in S : \A y \in S : x <= y
       IN <<m>> \o SortedSeq(S \ {m})

num_warps_per_block == CeilDiv(BlockSize, hardware.warp_size)

\* a faulty warp id that fills the warps without regard to the blocks (C27
\* depends on the warps of a block being its own)
warp_of_dense(tid, blocksize, warp_size) == tid \div warp_size

\* line 41 : the warp id of thread tid
warp_of(tid, blocksize, warp_size) ==
  (tid % blocksize) \div warp_size
    + (tid \div blocksize) * CeilDiv(blocksize, warp_size)

WarpOf(tid) == warp_of(tid, BlockSize, hardware.warp_size)

\* lines 40-44 : the loop over the threads, from thread tid on; ws holds
\* the warps filled so far
RECURSIVE WarpsFrom(_, _, _, _, _)
WarpsFrom(ws, tid, num_threads, blocksize, warp_size) ==
  IF ~(tid < num_threads) THEN ws
  ELSE WarpsFrom([ws EXCEPT ![warp_of(tid, blocksize, warp_size)] = Append(@, tid)],
                 tid + 1, num_threads, blocksize, warp_size)

\* lines 47-49 : the loop over the warps, from warp wnum on
RECURSIVE BlocksFrom(_, _, _, _)
BlocksFrom(bs, wnum, num_warps, warps_per_block) ==
  IF ~(wnum < num_warps) THEN bs
  ELSE BlocksFrom([bs EXCEPT ![wnum \div warps_per_block] = Append(@, wnum)],
                  wnum + 1, num_warps, warps_per_block)

\* lines 52-54 : the loop over the blocks, from block bnum on
RECURSIVE CoresFrom(_, _, _, _)
CoresFrom(cs, bnum, num_blocks, num_cores) ==
  IF ~(bnum < num_blocks) THEN cs
  ELSE CoresFrom([cs EXCEPT ![bnum % num_cores] = Append(@, bnum)],
                 bnum + 1, num_blocks, num_cores)

\* main, lines 86-91, and schedule_threads, lines 37-54 : the vectors as main
\* sizes them and schedule_threads fills them
ScheduleThreads(num_threads, blocksize, warp_size, num_cores) ==
  LET num_blocks == CeilDiv(num_threads, blocksize)
      warps_per_block == CeilDiv(blocksize, warp_size)
      num_warps == warps_per_block * num_blocks
  IN [ warps |-> WarpsFrom([w \in 0 .. (num_warps - 1) |-> <<>>], 0,
                           num_threads, blocksize, warp_size),
       blocks |-> BlocksFrom([b \in 0 .. (num_blocks - 1) |-> <<>>], 0,
                             num_warps, warps_per_block),
       cores |-> CoresFrom([c \in 0 .. (num_cores - 1) |-> <<>>], 0,
                           num_blocks, num_cores) ]

\* main sizes the vectors: warps(num_warps_per_block*num_blocks), blocks(num_blocks)
NumBlocks(num_threads) == CeilDiv(num_threads, BlockSize)

AssignWarps(num_threads) ==
  [ w \in 0 .. (num_warps_per_block * NumBlocks(num_threads) - 1) |->
      SortedSeq({ t \in 0 .. (num_threads - 1) : WarpOf(t) = w }) ]

AssignBlocks(num_threads) ==
  [ b \in 0 .. (NumBlocks(num_threads) - 1) |->
      SortedSeq({ w \in 0 .. (num_warps_per_block * NumBlocks(num_threads) - 1) :
                    w \div num_warps_per_block = b }) ]

\* cores[cid] for cid = 0, the core main models
AssignCore(num_threads) ==
  SortedSeq({ b \in 0 .. (NumBlocks(num_threads) - 1) : b % hardware.num_cores = 0 })

(***************************************************************************)
(* scheduler.cpp : coalescing.  acc maps a thread to its access list; the  *)
(* access at column a of thread t is acc[t][a+1].  The comparison reads    *)
(* the earlier thread's access at the same column without checking that    *)
(* it has one: such a read is outside the vector and returns what memory   *)
(* holds.  G is the set of those reads <<tid, old_tid, column>> whose      *)
(* garbage compares equal to the reader's line.                            *)
(***************************************************************************)
ScheduleLength(bytes) ==
  IF bytes = 8 THEN hardware.warp_size \div 2
  ELSE IF bytes = 16 THEN hardware.warp_size \div 4
  ELSE hardware.warp_size

\* a faulty scan that adds the end addresses instead of taking the larger
\* (C16 depends on std::max)
RECURSIVE CoalesceScanSum(_, _, _, _, _, _)
CoalesceScanSum(acc, w, tnum, access, old_tnum, G) ==
  IF old_tnum >= tnum THEN acc
  ELSE
    LET tid == w[tnum + 1]
        old_tid == w[old_tnum + 1]
        this == acc[tid][access + 1]
        oob == access >= Len(acc[old_tid])
    IN IF oob
       THEN IF <<tid, old_tid, access>> \in G
            THEN [acc EXCEPT ![tid][access + 1].width = 0]
            ELSE CoalesceScanSum(acc, w, tnum, access, old_tnum + 1, G)
       ELSE LET old == acc[old_tid][access + 1]
            IN IF LineOf(this.address) = LineOf(old.address)
               THEN IF this.address # old.address
                    THEN [acc EXCEPT
                            ![tid][access + 1].width = 0,
                            ![old_tid][access + 1].end_address =
                                old.end_address + this.end_address,
                            ![old_tid][access + 1].width = old.width + 1]
                    ELSE [acc EXCEPT ![tid][access + 1].width = 0]
               ELSE CoalesceScanSum(acc, w, tnum, access, old_tnum + 1, G)

RECURSIVE CoalesceScan(_, _, _, _, _, _)
CoalesceScan(acc, w, tnum, access, old_tnum, G) ==
  IF old_tnum >= tnum THEN acc
  ELSE
    LET tid == w[tnum + 1]
        old_tid == w[old_tnum + 1]
        this == acc[tid][access + 1]
        oob == access >= Len(acc[old_tid])
    IN IF oob
       THEN IF <<tid, old_tid, access>> \in G
            THEN [acc EXCEPT ![tid][access + 1].width = 0]
            ELSE CoalesceScan(acc, w, tnum, access, old_tnum + 1, G)
       ELSE LET old == acc[old_tid][access + 1]
            IN IF LineOf(this.address) = LineOf(old.address)
               THEN IF this.address # old.address
                    THEN [acc EXCEPT
                            ![tid][access + 1].width = 0,
                            ![old_tid][access + 1].end_address =
                                Max(old.end_address, this.end_address),
                            ![old_tid][access + 1].width = old.width + 1]
                    ELSE [acc EXCEPT ![tid][access + 1].width = 0]
               ELSE CoalesceScan(acc, w, tnum, access, old_tnum + 1, G)

\* one column of one warp; the result is <<acc, done>>
RECURSIVE CoalesceColumn(_, _, _, _, _, _)
CoalesceColumn(acc, w, access, tnum, done, G) ==
  IF tnum >= Len(w) THEN <<acc, done>>
  ELSE
    LET tid == w[tnum + 1]
    IN IF access < Len(acc[tid])
       THEN LET sl == ScheduleLength(acc[tid][access + 1].bytes)
                acc1 == CoalesceScan(acc, w, tnum, access, sl * (tnum \div sl), G)
            IN CoalesceColumn(acc1, w, access, tnum + 1, done, G)
       ELSE IF access = Len(acc[tid])
            THEN CoalesceColumn(acc, w, access, tnum + 1, done + 1, G)
            ELSE CoalesceColumn(acc, w, access, tnum + 1, done, G)

RECURSIVE CoalesceWarp(_, _, _, _, _)
CoalesceWarp(acc, w, access, done, G) ==
  IF done >= Len(w) THEN acc
  ELSE LET r == CoalesceColumn(acc, w, access, 0, done, G)
       IN CoalesceWarp(r[1], w, access + 1, r[2], G)

RECURSIVE CoalesceFrom(_, _, _, _)
CoalesceFrom(acc, ws, wnum, G) ==
  IF wnum \notin DOMAIN ws THEN acc
  ELSE CoalesceFrom(CoalesceWarp(acc, ws[wnum], 0, 0, G), ws, wnum + 1, G)

Coalesce(acc, ws, G) == CoalesceFrom(acc, ws, 0, G)

\* the reads of coalescing that fall outside the earlier thread's accesses
OutOfBoundsReads(acc, ws) ==
  { r \in (DOMAIN acc) \X (DOMAIN acc) \X (0 .. MaxTotal) :
      /\ r[2] < r[1]
      /\ WarpOf(r[1]) = WarpOf(r[2])
      /\ r[3] < Len(acc[r[1]])
      /\ r[3] >= Len(acc[r[2]])
      /\ LET sl == ScheduleLength(acc[r[1]][r[3] + 1].bytes)
             tnum == r[1] - ws[WarpOf(r[1])][1]
             old_tnum == r[2] - ws[WarpOf(r[1])][1]
         IN old_tnum >= sl * (tnum \div sl) }

(***************************************************************************)
(* model.h : Requests                                                      *)
(***************************************************************************)
Requests == [request_list |-> <<>>, unique_requests |-> {}]

RequestsAdd(r, addr, future_time, set) ==
  [ request_list |-> Append(r.request_list,
                            [time |-> future_time, addr |-> addr, set |-> set]),
    unique_requests |-> r.unique_requests \cup {addr} ]

get_num_requests(r) == Cardinality(r.unique_requests)

has_requests(r, current_time) ==
  \E i \in DOMAIN r.request_list : r.request_list[i].time = current_time

\* a faulty get_requests that also returns the requests of the next tick
\* (C21 depends on the key being the current time)
CurrentRequestsEarly(r, current_time) ==
  SelectSeq(r.request_list,
            LAMBDA q : q.time = current_time \/ q.time = current_time + 1)

\* the requests get_requests returns, in insertion order
CurrentRequests(r, current_time) ==
  SelectSeq(r.request_list, LAMBDA q : q.time = current_time)

\* a faulty get_requests that erases the requests but leaves their addresses in
\* unique_requests: the MSHRs are never freed (C8 depends on the erase)
RequestsAfterGetKeepUnique(r, current_time) ==
  [ request_list |-> SelectSeq(r.request_list, LAMBDA q : q.time # current_time),
    unique_requests |-> r.unique_requests ]

\* the queue get_requests leaves behind
RequestsAfterGet(r, current_time) ==
  [ request_list |-> SelectSeq(r.request_list, LAMBDA q : q.time # current_time),
    unique_requests |->
      r.unique_requests \ { r.request_list[i].addr :
                              i \in { j \in DOMAIN r.request_list :
                                        r.request_list[j].time = current_time } } ]

(***************************************************************************)
(* model.h : Pool                                                          *)
(***************************************************************************)
Pool == [warps |-> <<>>, in_flight |-> <<>>, size |-> 0, done |-> 0]

\* a faulty add_warp that makes the warp ready at once, whatever the latency
\* (C12 depends on the warp waiting for its requests)
add_warp_now(p, _warpid, future_time) ==
  [p EXCEPT !.warps = Append(@, _warpid)]

add_warp(p, _warpid, future_time) ==
  IF future_time = 0
  THEN [p EXCEPT !.warps = Append(@, _warpid)]
  ELSE [p EXCEPT !.in_flight =
          [w \in DOMAIN p.in_flight \cup {_warpid} |->
             IF w = _warpid THEN future_time ELSE p.in_flight[w]]]

\* a faulty transfer that decrements before it tests, and so releases a warp
\* one call early (C25 depends on the test coming first)
process_warps_in_flight_eager(p) ==
  LET released == { w \in DOMAIN p.in_flight : p.in_flight[w] - 1 = 0 }
  IN [p EXCEPT
        !.warps = @ \o SortedSeq(released),
        !.in_flight = [w \in DOMAIN p.in_flight \ released |-> p.in_flight[w] - 1]]

process_warps_in_flight(p) ==
  LET released == { w \in DOMAIN p.in_flight : p.in_flight[w] = 0 }
  IN [p EXCEPT
        !.warps = @ \o SortedSeq(released),
        !.in_flight = [w \in DOMAIN p.in_flight \ released |-> p.in_flight[w] - 1]]

set_size(p) == [p EXCEPT !.size = Len(p.warps)]
has_work(p) == Len(p.warps) > 0
is_done(p) == p.done = p.size

\* the assertion is_done makes before it compares: assert(size != 0)
is_done_assertion(p) == p.size # 0


(***************************************************************************)
(* model.cpp : the parameter vector of each of the NUM_CASES runs          *)
(***************************************************************************)
RunConfig(runs) ==
  [ runs |-> runs,
    cache_sets |-> IF runs = 1 THEN 1 ELSE hardware.cache_sets,
    cache_ways |-> IF runs = 1 THEN hardware.cache_ways * hardware.cache_sets
                   ELSE hardware.cache_ways,
    mem_latency |-> IF runs = 2 THEN 0 ELSE hardware.mem_latency,
    mem_latency_stddev |-> IF runs = 2 THEN 0 ELSE hardware.mem_latency_stddev,
    non_mem_latency |-> IF runs = 2 THEN 0 ELSE NON_MEM_LATENCY,
    num_mshr |-> IF runs = 3 THEN INF ELSE hardware.num_mshr ]

\* main: the number of blocks that run at a time on the core
ActiveBlocksOf(core_size, max_active_blocks, max_active_threads) ==
  Min(core_size, Min(max_active_threads \div BlockSize, max_active_blocks))

ActiveBlocks(core_size, max_active_blocks) ==
  ActiveBlocksOf(core_size, max_active_blocks, hardware.max_active_threads)

\* |round(distribution(gen))| for normal_distribution(0, stddev)
NoiseValues(c) == IF c.mem_latency_stddev = 0 THEN {0} ELSE 0 .. MaxNoise

(***************************************************************************)
(* State                                                                   *)
(***************************************************************************)
VARIABLES
  threads,            \* thread id -> access list (after coalescing)
  tpc,                \* thread id -> Thread::pc
  warps, blocks, core,\* the hierarchy schedule_threads built
  cfg,                \* the parameters of this call of reuse_distance
  active_blocks,
  distances,          \* the histogram: distance -> frequency
  B,                  \* set -> Tree
  P,                  \* line address -> last use (0: none)
  set_counters,       \* set -> counter
  timestamp,
  snum,               \* the window of active blocks
  pool,
  requests_miss, requests_hit,   \* set -> Requests
  num_miss_requests, wnum, max_future_time, threads_done, portions, warp_portion,
  pc,                 \* where reuse_distance is
  completed,          \* history: line addresses with a completed request
  completions,        \* history: set -> number of completed requests
  log,                \* history: what the last slice did, one entry per access
  unscheduled,        \* history: number of calls of unschedule()
  cl,                 \* the classifier's state (ClassifierSpec)
  fn                  \* a call of the coalescing pass or of line_addr_to_set,
                      \* followed on its own (CoalesceSpec, HashSpec)

engine_vars ==
  << threads, tpc, warps, blocks, core, cfg, active_blocks, distances, B, P,
     set_counters, timestamp, snum, pool, requests_miss, requests_hit,
     num_miss_requests, wnum, max_future_time, threads_done, portions,
     warp_portion, pc, completed, completions, log, unscheduled >>

vars == << engine_vars, cl, fn >>

(***************************************************************************)
(* reusedistance.cpp, phase 1 : accesses per set                           *)
(***************************************************************************)
SetOfAddress(address, c) == line_addr_to_set(LineOf(address), c.cache_sets)

Positions(thr) == { p \in (DOMAIN thr) \X (1 .. MaxTotal + 1) : p[2] <= Len(thr[p[1]]) }

\* a faulty Phase 1 that counts no access (C39 depends on the trees being
\* sized by the count)
num_total_accesses_none(thr, c) == [ set \in 0 .. (c.cache_sets - 1) |-> 0 ]

num_total_accesses(thr, c) ==
  [ set \in 0 .. (c.cache_sets - 1) |->
      Cardinality({ p \in Positions(thr) :
                      /\ thr[p[1]][p[2]].width # 0
                      /\ SetOfAddress(thr[p[1]][p[2]].address, c) = set })
      + Cardinality({ p \in Positions(thr) :
                      /\ thr[p[1]][p[2]].width # 0
                      /\ LineOf(thr[p[1]][p[2]].address)
                           # LineOf(thr[p[1]][p[2]].end_address)
                      /\ SetOfAddress(thr[p[1]][p[2]].end_address, c) = set }) ]

grand_total(thr, c) ==
  LET n == num_total_accesses(thr, c) IN SumFun(n, DOMAIN n)

\* the sum the sanity check of reuse_distance computes
distances_total(d) == SumFun(d, DOMAIN d)

(***************************************************************************)
(* reusedistance.cpp : process_requests.  m holds P, B and set_counters    *)
(***************************************************************************)
\* faulty variants of the body of process_requests' loop.
\* not unsetting the previous use in the tree (C4 depends on the unset):
ProcessRequestNoUnset(m, request, set) ==
  [ P |-> [m.P EXCEPT ![request.addr] = m.set_counters[set]],
    B |-> [m.B EXCEPT ![set] = TreeSet(@, m.set_counters[set])],
    set_counters |-> [m.set_counters EXCEPT ![set] = @ + 1] ]

\* not recording the use in P (C5 depends on the write to P):
ProcessRequestNoRecord(m, request, set) ==
  [ P |-> m.P,
    B |-> [m.B EXCEPT ![set] = TreeSet(@, m.set_counters[set])],
    set_counters |-> [m.set_counters EXCEPT ![set] = @ + 1] ]

\* advancing the set's counter for new lines only (C6 depends on the
\* unconditional increment):
ProcessRequestNewLineCounter(m, request, set) ==
  LET previous_time == m.P[request.addr]
      B1 == IF previous_time # 0
            THEN [m.B EXCEPT ![set] = TreeUnset(@, previous_time)]
            ELSE m.B
  IN [ P |-> [m.P EXCEPT ![request.addr] = m.set_counters[set]],
       B |-> [B1 EXCEPT ![set] = TreeSet(@, m.set_counters[set])],
       set_counters |-> IF previous_time # 0 THEN m.set_counters
                        ELSE [m.set_counters EXCEPT ![set] = @ + 1] ]

ProcessRequest(m, request, set) ==
  LET previous_time == m.P[request.addr]
      B1 == IF previous_time # 0
            THEN [m.B EXCEPT ![set] = TreeUnset(@, previous_time)]
            ELSE m.B
  IN [ P |-> [m.P EXCEPT ![request.addr] = m.set_counters[set]],
       B |-> [B1 EXCEPT ![set] = TreeSet(@, m.set_counters[set])],
       set_counters |-> [m.set_counters EXCEPT ![set] = @ + 1] ]

RECURSIVE ProcessList(_, _, _)
ProcessList(m, current_requests, set) ==
  IF current_requests = <<>> THEN m
  ELSE Bind(<<ProcessRequest(m, Head(current_requests), set),
              Tail(current_requests)>>,
            LAMBDA a : ProcessList(a[1], a[2], set))

process_requests(m, requests, ts, set) ==
  IF has_requests(requests, ts)
  THEN [ m |-> ProcessList(m, CurrentRequests(requests, ts), set),
         requests |-> RequestsAfterGet(requests, ts) ]
  ELSE [ m |-> m, requests |-> requests ]

\* a faulty loop over the sets that completes the misses of a set before its
\* hits (C24 depends on the hits being processed first)
RECURSIVE DrainFromMissFirst(_, _, _, _)
DrainFromMissFirst(e, ts, set, cache_sets) ==
  IF set >= cache_sets THEN e
  ELSE
    LET m0 == [P |-> e.P, B |-> e.B, set_counters |-> e.set_counters]
        r1 == process_requests(m0, e.requests_miss[set], ts, set)
        r2 == process_requests(r1.m, e.requests_hit[set], ts, set)
        now == CurrentRequests(e.requests_hit[set], ts)
                 \o CurrentRequests(e.requests_miss[set], ts)
        e1 == [ P |-> r2.m.P, B |-> r2.m.B, set_counters |-> r2.m.set_counters,
                requests_hit |-> [e.requests_hit EXCEPT ![set] = r2.requests],
                requests_miss |-> [e.requests_miss EXCEPT ![set] = r1.requests],
                completed |-> e.completed \cup { now[i].addr : i \in DOMAIN now },
                completions |-> [e.completions EXCEPT ![set] = @ + Len(now)] ]
    IN Bind(e1, LAMBDA e2 : DrainFromMissFirst(e2, ts, set + 1, cache_sets))

\* the loop over all sets: hits, then misses, of each set in turn.
\* e holds P, B, set_counters, requests_hit, requests_miss and the history.
RECURSIVE DrainFrom(_, _, _, _)
DrainFrom(e, ts, set, cache_sets) ==
  IF set >= cache_sets THEN e
  ELSE
    LET m0 == [P |-> e.P, B |-> e.B, set_counters |-> e.set_counters]
        r1 == process_requests(m0, e.requests_hit[set], ts, set)
        r2 == process_requests(r1.m, e.requests_miss[set], ts, set)
        now == CurrentRequests(e.requests_hit[set], ts)
                 \o CurrentRequests(e.requests_miss[set], ts)
        e1 == [ P |-> r2.m.P, B |-> r2.m.B, set_counters |-> r2.m.set_counters,
                requests_hit |-> [e.requests_hit EXCEPT ![set] = r1.requests],
                requests_miss |-> [e.requests_miss EXCEPT ![set] = r2.requests],
                completed |-> e.completed \cup { now[i].addr : i \in DOMAIN now },
                completions |-> [e.completions EXCEPT ![set] = @ + Len(now)] ]
    IN Bind(e1, LAMBDA e2 : DrainFrom(e2, ts, set + 1, cache_sets))

Drain(e, ts, cache_sets) ==
  Bind(e, LAMBDA e0 : DrainFrom(e0, ts, 0, cache_sets))


\* the state the drain reads and writes
DrainState ==
  [ P |-> P, B |-> B, set_counters |-> set_counters,
    requests_hit |-> requests_hit, requests_miss |-> requests_miss,
    completed |-> completed, completions |-> completions ]

(***************************************************************************)
(* model.h : Thread                                                        *)
(***************************************************************************)
thread_is_done(thr, tp, tid) == tp[tid] = Len(thr[tid])

\* Thread::schedule and Thread::unschedule, on the program counters tp
schedule(tp, tid) == [tp EXCEPT ![tid] = @ + 1]

\* a faulty unschedule that leaves the pc behind the access it gave up (C22
\* depends on the pc going back)
unschedule_none(tp, tid) == tp

unschedule(tp, tid) == [tp EXCEPT ![tid] = @ - 1]
get_bytes(thr, tp, tid) ==
  IF tp[tid] = Len(thr[tid]) THEN 1 ELSE thr[tid][tp[tid] + 1].bytes

(***************************************************************************)
(* reusedistance.cpp, lines 160-234 : the threads of one slice of a warp.  *)
(* L holds what the loop changes: tpc, the request queues, the histogram,  *)
(* max_future_time, threads_done and the history log.  nz gives, for each  *)
(* lane, the noise drawn if the lane misses.                               *)
(***************************************************************************)
\* a faulty histogram update that stores 1 instead of incrementing (C3 depends
\* on the increment)
IncrementOnce(d, distance) ==
  [ x \in DOMAIN d \cup {distance} |-> IF x = distance THEN 1 ELSE d[x] ]

Increment(d, distance) ==
  [ x \in DOMAIN d \cup {distance} |->
      IF x = distance THEN (IF x \in DOMAIN d THEN d[x] ELSE 0) + 1 ELSE d[x] ]

\* a faulty classification that takes distance = cache_ways for a hit (C7
\* depends on the comparison being >=)
IsMissStrict(distance, cache_ways) == distance > cache_ways

\* miss <=> distance >= cache_ways (INF included)
IsMiss(distance, cache_ways) == distance >= cache_ways

\* a faulty backpressure test that never finds the MSHRs in use (C13 depends
\* on the unschedule)
NoFreeMshrNever(n_miss, num_mshr, tnum) == FALSE

\* a faulty backpressure test that lets one request more in flight than there
\* are MSHRs (C15 depends on the comparison being >=)
NoFreeMshrStrict(n_miss, num_mshr, tnum) == n_miss > num_mshr /\ tnum = 0

\* the backpressure test of lines 205-208
NoFreeMshr(n_miss, num_mshr, tnum) == n_miss >= num_mshr /\ tnum = 0

\* a faulty arrival time of a hit, one tick late (C34 depends on a hit being
\* due before the warp can be found done)
HitArrivalLate(ts, c) == ts + c.non_mem_latency + 1

HitArrival(ts, c) == ts + c.non_mem_latency

ThreadStep(L, tid, tnum, noise, n_miss) ==
  IF thread_is_done(threads, L.tpc, tid)
  THEN [L EXCEPT !.threads_done = @ + 1]
  ELSE
    LET access == threads[tid][L.tpc[tid] + 1]
        L1 == [L EXCEPT !.tpc = schedule(@, tid)]
    IN IF access.width = 0 THEN L1
       ELSE
         LET line_addr == LineOf(access.address)
             set == line_addr_to_set(line_addr, cfg.cache_sets)
             previous_time == IF P[line_addr] # 0 THEN P[line_addr] ELSE INF
             distance == IF previous_time # INF
                         THEN TreeCount(B[set], previous_time) ELSE INF
             entry == [ tid |-> tid, index |-> L.tpc[tid], line |-> line_addr,
                        set |-> set, distance |-> distance,
                        was_completed |-> line_addr \in completed ]
         IN IF IsMiss(distance, cfg.cache_ways)
            THEN
              LET memory_latency == cfg.mem_latency + noise
                  arrival_time == timestamp + memory_latency
                  L2 == [L1 EXCEPT !.max_future_time = Max(@, memory_latency)]
              IN IF NoFreeMshr(n_miss, cfg.num_mshr, tnum)
                 THEN [L2 EXCEPT
                         !.tpc = unschedule(@, tid),
                         !.max_future_time = 0,
                         !.break = TRUE,
                         !.unscheduled = @ + 1,
                         !.log = Append(@, entry @@
                                   [queue |-> "none", arrival_time |-> arrival_time])]
                 ELSE [L2 EXCEPT
                         !.requests_miss[set] =
                            RequestsAdd(@, line_addr, arrival_time, set),
                         !.distances = Increment(@, distance),
                         !.log = Append(@, entry @@
                                   [queue |-> "miss", arrival_time |-> arrival_time])]
            ELSE
              LET arrival_time == HitArrival(timestamp, cfg)
              IN [L1 EXCEPT
                    !.requests_hit[set] =
                       RequestsAdd(@, line_addr, arrival_time, set),
                    !.distances = Increment(@, distance),
                    !.log = Append(@, entry @@
                              [queue |-> "hit", arrival_time |-> arrival_time])]

RECURSIVE SliceFrom(_, _, _, _, _, _)
SliceFrom(L, w, tnum, tnum_stop, nz, n_miss) ==
  IF L.break \/ ~(tnum < tnum_stop /\ tnum < Len(warps[w])) THEN L
  ELSE Bind(ThreadStep(L, warps[w][tnum + 1], tnum, nz[tnum], n_miss),
            LAMBDA L1 : SliceFrom(L1, w, tnum + 1, tnum_stop, nz, n_miss))

(***************************************************************************)
(* reusedistance.cpp : reuse_distance, step by step                        *)
(***************************************************************************)
NumWindows == CeilDiv(Len(core), active_blocks)

\* line 119 : snum < ceil(core.size()/(float)(active_blocks)).  The division
\* is one of floats: by 0 it gives +infinity for a core with blocks (every
\* snum is below it) and NaN for a core without (no snum is below it).
MoreWindows ==
  IF active_blocks = 0 THEN Len(core) > 0 ELSE snum < NumWindows

\* a faulty filling that goes on to the last block of the core, whatever the
\* number of active blocks (C23 depends on the window's upper bound)
RECURSIVE FillPoolRest(_, _, _)
FillPoolRest(p, bnum, wi) ==
  IF ~(bnum < Len(core)) THEN p
  ELSE LET bid == core[bnum + 1]
       IN IF wi < Len(blocks[bid])
          THEN Bind(add_warp(p, blocks[bid][wi + 1], 0),
                    LAMBDA p1 : FillPoolRest(p1, bnum, wi + 1))
          ELSE FillPoolRest(p, bnum + 1, 0)

\* lines 121-133 : the pool and the request queues of window snum
RECURSIVE FillPool(_, _, _)
FillPool(p, bnum, wi) ==
  IF ~(bnum < (snum + 1) * active_blocks /\ bnum < Len(core)) THEN p
  ELSE LET bid == core[bnum + 1]
       IN IF wi < Len(blocks[bid])
          THEN Bind(add_warp(p, blocks[bid][wi + 1], 0),
                    LAMBDA p1 : FillPool(p1, bnum, wi + 1))
          ELSE FillPool(p, bnum + 1, 0)

StartWindow ==
  /\ pc = "window"
  /\ MoreWindows
  /\ pool' = set_size(FillPool(Pool, snum * active_blocks, 0))
  /\ requests_miss' = [set \in 0 .. (cfg.cache_sets - 1) |-> Requests]
  /\ requests_hit' = [set \in 0 .. (cfg.cache_sets - 1) |-> Requests]
  /\ pc' = "loop"
  /\ UNCHANGED << threads, tpc, warps, blocks, core, cfg, active_blocks, distances,
                  B, P, set_counters, timestamp, snum, num_miss_requests, wnum,
                  max_future_time, threads_done, portions, warp_portion,
                  completed, completions, log, unscheduled, cl, fn >>

\* lines 136 (exit) and 119 (snum++)
EndWindow ==
  /\ pc = "loop"
  /\ is_done_assertion(pool)
  /\ is_done(pool)
  /\ snum' = snum + 1
  /\ pc' = "window"
  /\ UNCHANGED << threads, tpc, warps, blocks, core, cfg, active_blocks, distances,
                  B, P, set_counters, timestamp, pool, requests_miss, requests_hit,
                  num_miss_requests, wnum, max_future_time, threads_done, portions,
                  warp_portion, completed, completions, log, unscheduled, cl, fn >>

MissRequestsInFlight ==
  SumFun([set \in DOMAIN requests_miss |-> get_num_requests(requests_miss[set])],
         DOMAIN requests_miss)

\* lines 155-234 : the threads of slice portion of warp w, with the loop's
\* variables as L0 holds them and n_miss the MSHRs counted in use
SliceOf(L0, w, portion, n_portions, nz, n_miss) ==
  SliceFrom(L0, w, portion * (hardware.warp_size \div n_portions),
            (portion + 1) * (hardware.warp_size \div n_portions), nz, n_miss)

LoopState(mft, tdone) ==
  [ tpc |-> tpc, requests_miss |-> requests_miss, requests_hit |-> requests_hit,
    distances |-> distances, max_future_time |-> mft, threads_done |-> tdone,
    log |-> <<>>, unscheduled |-> unscheduled, break |-> FALSE ]

\* lines 138-234 : count the MSHRs in use, take a warp and run the threads of
\* its first slice
TakeWarpStep ==
  /\ pc = "loop"
  /\ is_done_assertion(pool)
  /\ ~is_done(pool)
  /\ has_work(pool)
  /\ num_miss_requests' = MissRequestsInFlight
  /\ wnum' = Head(pool.warps)
  /\ pool' = [pool EXCEPT !.warps = Tail(@)]
  /\ portions' = Max(1, get_bytes(threads, tpc, warps[Head(pool.warps)][1]) \div 4)
  /\ warp_portion' = 0
  /\ \E nz \in [0 .. (hardware.warp_size - 1) -> NoiseValues(cfg)] :
       \E L \in {SliceOf(LoopState(0, 0), wnum', 0, portions', nz, num_miss_requests')} :
          /\ tpc' = L.tpc
          /\ requests_miss' = L.requests_miss
          /\ requests_hit' = L.requests_hit
          /\ distances' = L.distances
          /\ max_future_time' = L.max_future_time
          /\ threads_done' = L.threads_done
          /\ log' = L.log
          /\ unscheduled' = L.unscheduled
  /\ pc' = "drain"
  /\ UNCHANGED << threads, warps, blocks, core, cfg, active_blocks, B, P,
                  set_counters, timestamp, snum, completed, completions, cl >>

TakeWarp == TakeWarpStep /\ UNCHANGED fn

\* lines 155-234 : the threads of a later slice of the warp
NextSliceStep ==
  /\ pc = "slice"
  /\ \E nz \in [0 .. (hardware.warp_size - 1) -> NoiseValues(cfg)] :
       \E L \in {SliceOf(LoopState(max_future_time, threads_done), wnum,
                        warp_portion, portions, nz, num_miss_requests)} :
          /\ tpc' = L.tpc
          /\ requests_miss' = L.requests_miss
          /\ requests_hit' = L.requests_hit
          /\ distances' = L.distances
          /\ max_future_time' = L.max_future_time
          /\ threads_done' = L.threads_done
          /\ log' = L.log
          /\ unscheduled' = L.unscheduled
  /\ pc' = "drain"
  /\ UNCHANGED << threads, warps, blocks, core, cfg, active_blocks, B, P,
                  set_counters, timestamp, snum, pool, num_miss_requests, wnum,
                  portions, warp_portion, completed, completions, cl >>

NextSlice == NextSliceStep /\ UNCHANGED fn

SetDrainState(e) ==
  /\ P' = e.P
  /\ B' = e.B
  /\ set_counters' = e.set_counters
  /\ requests_hit' = e.requests_hit
  /\ requests_miss' = e.requests_miss
  /\ completed' = e.completed
  /\ completions' = e.completions

\* lines 236-240 : the drain that ends a slice, when another slice follows
SliceDrain ==
  /\ pc = "drain"
  /\ warp_portion + 1 < portions
  /\ \E e \in {Drain(DrainState, timestamp, cfg.cache_sets)} : SetDrainState(e)
  /\ warp_portion' = warp_portion + 1
  /\ pc' = "slice"
  /\ UNCHANGED << threads, tpc, warps, blocks, core, cfg, active_blocks, distances,
                  timestamp, snum, pool, num_miss_requests, wnum, max_future_time,
                  threads_done, portions, log, unscheduled, cl, fn >>

\* a faulty return that puts the warp back without a delay (C30 depends on
\* the delay being the longest latency of the warp's misses)
ReturnWarpAtOnce(p) ==
  IF threads_done = Len(warps[wnum])
  THEN [p EXCEPT !.done = @ + 1]
  ELSE add_warp(p, wnum, 0)

\* a faulty return that counts every returned warp as done and still puts the
\* unfinished ones back (C35 depends on the two branches excluding each other)
ReturnWarpCounted(p) ==
  IF threads_done = Len(warps[wnum])
  THEN [p EXCEPT !.done = @ + 1]
  ELSE add_warp([p EXCEPT !.done = @ + 1], wnum, max_future_time)

\* lines 243-251 : the warp is done, or goes back to the pool
ReturnWarp(p) ==
  IF threads_done = Len(warps[wnum])
  THEN [p EXCEPT !.done = @ + 1]
  ELSE add_warp(p, wnum, max_future_time)

\* lines 254-264 : drain, release the warps in flight, advance the time
Tick(e, p) ==
  /\ timestamp < MaxTime
  /\ \E e1 \in {Drain(e, timestamp, cfg.cache_sets)} : SetDrainState(e1)
  /\ pool' = process_warps_in_flight(p)
  /\ timestamp' = timestamp + 1
  /\ pc' = "loop"

\* lines 236-264 : the drain that ends the last slice, the return of the warp
\* and the end of the loop's iteration
EndTick ==
  /\ pc = "drain"
  /\ ~(warp_portion + 1 < portions)
  /\ warp_portion' = warp_portion + 1
  /\ Tick(Drain(DrainState, timestamp, cfg.cache_sets), ReturnWarp(pool))
  /\ UNCHANGED << threads, tpc, warps, blocks, core, cfg, active_blocks, distances,
                  snum, num_miss_requests, wnum, max_future_time, threads_done,
                  portions, log, unscheduled, cl, fn >>

\* lines 138-145 and 254-264 when the pool has no warp ready
IdleTick ==
  /\ pc = "loop"
  /\ is_done_assertion(pool)
  /\ ~is_done(pool)
  /\ ~has_work(pool)
  /\ num_miss_requests' = MissRequestsInFlight
  /\ Tick(DrainState, pool)
  /\ UNCHANGED << threads, tpc, warps, blocks, core, cfg, active_blocks, distances,
                  snum, wnum, max_future_time, threads_done, portions,
                  warp_portion, log, unscheduled, cl, fn >>

\* line 136 when the pool is empty: the assertion of is_done fails and the
\* program aborts
IsDoneAborts ==
  /\ pc = "loop"
  /\ ~is_done_assertion(pool)
  /\ pc' = "abort"
  /\ UNCHANGED << threads, tpc, warps, blocks, core, cfg, active_blocks, distances,
                  B, P, set_counters, timestamp, snum, pool, requests_miss,
                  requests_hit, num_miss_requests, wnum, max_future_time,
                  threads_done, portions, warp_portion, completed, completions,
                  log, unscheduled, cl, fn >>

\* a faulty reset that leaves the program counters where the run took them
\* (C18 depends on the reset of lines 268-271)
reset_none(pcs) == pcs

\* lines 268-271 : Thread::reset of every thread of the vector
reset(pcs) == [tid \in DOMAIN pcs |-> 0]

\* lines 268-280 : reset the program counters; the sanity check reads
\* grand_total and the histogram
Finalize ==
  /\ pc = "window"
  /\ ~MoreWindows
  /\ tpc' = reset(tpc)
  /\ pc' = "done"
  /\ UNCHANGED << threads, warps, blocks, core, cfg, active_blocks, distances, B, P,
                  set_counters, timestamp, snum, pool, requests_miss, requests_hit,
                  num_miss_requests, wnum, max_future_time, threads_done, portions,
                  warp_portion, completed, completions, log, unscheduled, cl, fn >>


(***************************************************************************)
(* The calls of reuse_distance: a trace file of at most MaxTotal loads,    *)
(* read by read_file, scheduled and coalesced by schedule_threads, and one *)
(* of the parameter vectors of main.                                       *)
(***************************************************************************)
\* the threads vector read_file leaves: thread t has the loads ks[cuts[t-1]+1 .. cuts[t]]
ReadFile(ks, cuts) ==
  LET all == [ t \in Tids |->
                 LET from == IF t = 0 THEN 0 ELSE cuts[t - 1]
                 IN [ i \in 1 .. (cuts[t] - from) |-> Access(ks[from + i]) ] ]
      num_threads == 1 + CHOOSE t \in Tids :
                           /\ Len(all[t]) > 0
                           /\ \A u \in Tids : Len(all[u]) > 0 => u <= t
  IN [ t \in 0 .. (num_threads - 1) |-> all[t] ]

\* the trace files of at most MaxTotal loads, each of a kind of K
TraceFilesOf(K) ==
  { <<ks, cuts>> \in
      (UNION { [1 .. n -> K] : n \in 1 .. MaxTotal })
        \X [Tids -> 0 .. MaxTotal] :
      /\ \A t \in Tids : t > 0 => cuts[t - 1] <= cuts[t]
      /\ \A t \in Tids : (\A u \in Tids : u <= t) => cuts[t] = Len(ks) }

TraceFiles == TraceFilesOf(Kinds)

\* the state on entry of the loop of reuse_distance, called with ab as
\* active_blocks
EngineInitCfg(raw, G, c, ab) ==
  LET ws == AssignWarps(Cardinality(DOMAIN raw))
      thr == Coalesce(raw, ws, G)
      n == num_total_accesses(thr, c)
  IN /\ threads = thr
     /\ tpc = [tid \in DOMAIN raw |-> 0]
     /\ warps = ws
     /\ blocks = AssignBlocks(Cardinality(DOMAIN raw))
     /\ core = AssignCore(Cardinality(DOMAIN raw))
     /\ cfg = c
     /\ active_blocks = ab
     /\ distances = <<>>
     /\ B = [set \in 0 .. (c.cache_sets - 1) |-> Tree(n[set] + STACK_EXTRA_SIZE)]
     /\ P = [line_addr \in Lines |-> 0]
     /\ set_counters = [set \in 0 .. (c.cache_sets - 1) |-> 1]
     /\ timestamp = 0
     /\ snum = 0
     /\ pool = Pool
     /\ requests_miss = [set \in 0 .. (c.cache_sets - 1) |-> Requests]
     /\ requests_hit = [set \in 0 .. (c.cache_sets - 1) |-> Requests]
     /\ num_miss_requests = 0
     /\ wnum = 0
     /\ max_future_time = 0
     /\ threads_done = 0
     /\ portions = 1
     /\ warp_portion = 0
     /\ pc = "window"
     /\ completed = {}
     /\ completions = [set \in 0 .. (c.cache_sets - 1) |-> 0]
     /\ log = <<>>
     /\ unscheduled = 0

\* the same for run runs of main, lines 112-142
EngineInitWith(raw, G, runs, ab) == EngineInitCfg(raw, G, RunConfig(runs), ab)

EngineInit(raw, G, runs, max_active_blocks) ==
  EngineInitWith(raw, G, runs,
    ActiveBlocks(Len(AssignCore(Cardinality(DOMAIN raw))), max_active_blocks))

Init ==
  /\ \E f \in TraceFiles :
       LET raw == ReadFile(f[1], f[2])
       IN \E G \in SUBSET OutOfBoundsReads(raw, AssignWarps(Cardinality(DOMAIN raw))) :
            \E runs \in 0 .. (NUM_CASES - 1), mab \in MaxActiveBlocks :
              EngineInit(raw, G, runs, mab)
  /\ cl = [pc |-> "off"]
  /\ fn = [pc |-> "off"]

Next ==
  \/ StartWindow
  \/ TakeWarp
  \/ NextSlice
  \/ SliceDrain
  \/ EndTick
  \/ IdleTick
  \/ EndWindow
  \/ Finalize

Spec == Init /\ [][Next]_vars

\* reuse_distance is a sequential loop: a step that can be taken is taken
LiveSpec == Init /\ [][Next]_vars /\ WF_vars(Next)

\* MainSpec : the runs of main for a trace whose blocksize may exceed
\* max_active_threads.  The model's blocks have BlockSize = 2 threads, so a
\* max_active_threads of 1 stands for a blocksize above the 1536 of model.h.
MaxActiveThreads == {1, hardware.max_active_threads}

MainInit ==
  /\ \E f \in TraceFiles :
       LET raw == ReadFile(f[1], f[2])
       IN \E G \in SUBSET OutOfBoundsReads(raw, AssignWarps(Cardinality(DOMAIN raw))) :
            \E runs \in 0 .. (NUM_CASES - 1), mab \in MaxActiveBlocks,
               mat \in MaxActiveThreads :
              EngineInitWith(raw, G, runs,
                ActiveBlocksOf(Len(AssignCore(Cardinality(DOMAIN raw))), mab, mat))
  /\ cl = [pc |-> "off"]
  /\ fn = [pc |-> "off"]

MainNext == Next \/ IsDoneAborts

MainSpec == MainInit /\ [][MainNext]_vars


(***************************************************************************)
(* io.cpp : output_miss_rate.  d is the vector of the NUM_CASES histograms.*)
(* The counters are unsigned and the differences are stored in ints; the   *)
(* values of the model stay far below 2^31, where both agree with the      *)
(* integers.                                                               *)
(***************************************************************************)
\* lines 149-150
WaysOfRun(i) ==
  IF i = 1 THEN hardware.cache_ways * hardware.cache_sets ELSE hardware.cache_ways

\* lines 153-158
IsCompulsory(distance) == distance = INF
IsCapacity(distance, i) == distance # INF /\ distance > WaysOfRun(i)
\* a faulty hit count that takes the hits of every run (C10 depends on i == 0)
IsHitAnyRun(distance, i) == ~IsCompulsory(distance) /\ ~IsCapacity(distance, i)

\* lines 161-163
IsHit(distance, i) == ~IsCompulsory(distance) /\ ~IsCapacity(distance, i) /\ i = 0

SumWhere(h, Keep(_)) ==
  SumFun(h, { distance \in DOMAIN h : Keep(distance) })

\* lines 141-166
CountMisses(d) ==
  LET comp == [ i \in 0 .. (NUM_CASES - 1) |-> SumWhere(d[i], IsCompulsory) ]
      cap == [ i \in 0 .. (NUM_CASES - 1) |->
                 SumWhere(d[i], LAMBDA x : IsCapacity(x, i)) ]
  IN [ miss_compulsory |-> comp,
       miss_capacity |-> cap,
       miss |-> [ i \in 0 .. (NUM_CASES - 1) |-> comp[i] + cap[i] ],
       hits |-> SumFun([ i \in 0 .. (NUM_CASES - 1) |->
                           SumWhere(d[i], LAMBDA x : IsHit(x, i)) ],
                       0 .. (NUM_CASES - 1)) ]

\* lines 188-192 : the overshoot goes to the first component that exceeds it
Absorb(c, rest) ==
  IF rest < 0
  THEN IF c.miss_mshr > -rest
       THEN [c EXCEPT !.miss_mshr = @ - rest]
       ELSE IF c.miss_latency > -rest
            THEN [c EXCEPT !.miss_latency = @ - rest]
            ELSE [c EXCEPT !.miss_associativity = @ - rest]
  ELSE c

\* lines 182-216 : the components and what is written to the file
Derive(k) ==
  LET c0 == [ miss_associativity |-> k.miss[0] - k.miss[1],
              miss_latency |-> k.miss_compulsory[0] - k.miss_compulsory[2],
              miss_mshr |-> k.miss[0] - k.miss[3] ]
      compulsory == k.miss_compulsory[2]
      rest == k.miss[0] - (compulsory + Max(0, c0.miss_latency)
                           + Max(0, c0.miss_associativity) + Max(0, c0.miss_mshr))
      c == Absorb(c0, rest)
  IN [ rest |-> rest,
       total_misses |-> k.miss[0],
       modelled_accesses |-> k.miss[0] + k.hits,
       modelled_compulsory |-> compulsory,
       modelled_capacity |-> Max(0, rest),
       modelled_associativity |-> Max(0, c.miss_associativity),
       modelled_latency |-> Max(0, c.miss_latency),
       modelled_mshr |-> Max(0, c.miss_mshr),
       tot_associativity |-> k.miss[1],
       tot_latency |-> k.miss[2],
       tot_mshr |-> k.miss[3],
       modelled_hits |-> k.hits ]

\* the distances of the histograms handed to the classifier
HistDistances == {1, 2, 3, INF}

\* the histograms of total frequency n: the entries of a map are positive
Histograms(n) ==
  { [ x \in { y \in HistDistances : f[y] > 0 } |-> f[x] ] :
      f \in { g \in [HistDistances -> 0 .. n] : SumFun(g, HistDistances) = n } }

ClassifierCount ==
  /\ cl.pc = "count"
  /\ cl' = [cl EXCEPT !.pc = "derive", !.counts = CountMisses(cl.distances)]
  /\ UNCHANGED << engine_vars, fn >>

ClassifierReport ==
  /\ cl.pc = "derive"
  /\ cl' = [cl EXCEPT !.pc = "reported", !.out = Derive(cl.counts)]
  /\ UNCHANGED << engine_vars, fn >>

\* the engine is not running
EngineOff ==
  /\ threads = <<>> /\ tpc = <<>> /\ warps = <<>> /\ blocks = <<>> /\ core = <<>>
  /\ cfg = RunConfig(0) /\ active_blocks = 1 /\ distances = <<>> /\ B = <<>>
  /\ P = <<>> /\ set_counters = <<>> /\ timestamp = 0 /\ snum = 0 /\ pool = Pool
  /\ requests_miss = <<>> /\ requests_hit = <<>> /\ num_miss_requests = 0
  /\ wnum = 0 /\ max_future_time = 0 /\ threads_done = 0 /\ portions = 1
  /\ warp_portion = 0 /\ pc = "off" /\ completed = {} /\ completions = <<>>
  /\ log = <<>> /\ unscheduled = 0

\* the four runs process the same accesses: their histograms have one total
ClassifierInit ==
  /\ EngineOff
  /\ \E n \in 0 .. MaxHistTotal :
       \E d \in [0 .. (NUM_CASES - 1) -> Histograms(n)] :
         cl = [pc |-> "count", distances |-> d, counts |-> <<>>, out |-> <<>>]
  /\ fn = [pc |-> "off"]

ClassifierNext == ClassifierCount \/ ClassifierReport

ClassifierSpec == ClassifierInit /\ [][ClassifierNext]_vars


(***************************************************************************)
(* Properties of reuse_distance (Spec, LiveSpec)                           *)
(***************************************************************************)
Freq(d, distance) == IF distance \in DOMAIN d THEN d[distance] ELSE 0

\* the line addresses the engine looks up: address / line_size of every
\* access of width > 0
LinesTouched ==
  { LineOf(threads[p[1]][p[2]].address) :
      p \in { q \in Positions(threads) : threads[q[1]][q[2]].width # 0 } }

\* the entries of the request queues of q, over all sets
QueueLen(q) == SumFun([set \in DOMAIN q |-> Len(q[set].request_list)], DOMAIN q)

\* the distinct line addresses held in the request queues of q, summed over
\* the sets
DistinctLinesQueued(q) ==
  SumFun([set \in DOMAIN q |->
            Cardinality({ q[set].request_list[i].addr :
                            i \in DOMAIN q[set].request_list })],
         DOMAIN q)

\* C1: when reuse_distance returns, the sum of the histogram's frequencies
\* equals the grand total of Phase 1, which counts every access of width > 0
\* once and a line-straddling access twice.  (Stated as the claim has it: an
\* access that straddles two lines is recorded once, and the equality fails.)
C1_HistogramTotalIsGrandTotal ==
  pc = "done" => distances_total(distances) = grand_total(threads, cfg)

\* C2: with a finite num_mshr, at every drain point the number of distinct
\* line addresses held in the miss queues, summed over all sets, is at most
\* num_mshr.  (Stated as the claim has it: the lanes of one warp that miss on
\* different lines are all enqueued, and the bound fails.)
C2_MissLinesWithinMshr ==
  (pc = "drain" /\ cfg.num_mshr # INF)
    => DistinctLinesQueued(requests_miss) <= cfg.num_mshr

\* C3 as stated: when a run ends, the number of accesses recorded with
\* distance INF equals the number of distinct line addresses touched by the
\* accesses of width > 0.
C3_OneInfPerLine ==
  pc = "done" => Freq(distances, INF) = Cardinality(LinesTouched)

\* C3, amended: when a run ends, the number of accesses recorded with
\* distance INF is at least the number of distinct line addresses touched by
\* the accesses of width > 0 (an access to a line no request has completed
\* for is recorded with INF, the first one and every later one alike).
C3_AtLeastOneInfPerLine ==
  pc = "done" => Freq(distances, INF) >= Cardinality(LinesTouched)

\* a run with positive latency that ended with more INF entries than lines
C3_Witness ==
  /\ pc = "done"
  /\ cfg.mem_latency > 0
  /\ Cardinality(LinesTouched) >= 2
  /\ Freq(distances, INF) > Cardinality(LinesTouched)

\* C4: in every state and for every set s, the value of the root of B[s] is
\* the number of distinct line addresses that have a non-zero last-use
\* timestamp in P and hash to s.
C4_RootCountsRecordedLines ==
  \A s \in DOMAIN B :
    NodeValue(B[s], Root(B[s]))
      = Cardinality({ line_addr \in Lines :
                        /\ P[line_addr] # 0
                        /\ line_addr_to_set(line_addr, cfg.cache_sets) = s })

\* a set with two recorded lines, one of them completed again (its earlier
\* timestamp was unset)
C4_Witness ==
  \E s \in DOMAIN B :
    /\ NodeValue(B[s], Root(B[s])) = 2
    /\ set_counters[s] >= 4

\* C5: for every access of width > 0 the loop computes a distance for, the
\* distance is INF exactly when no request for the access's line address was
\* completed by process_requests earlier in the run; the distance of a line
\* completed before is a count below INF.
C5_InfIffNeverCompleted ==
  \A i \in DOMAIN log :
    /\ (log[i].distance = INF) <=> ~log[i].was_completed
    /\ log[i].was_completed => (log[i].distance >= 0 /\ log[i].distance < INF)

\* an access to a line completed before, with another line used in between
C5_Witness ==
  \E i \in DOMAIN log :
    log[i].was_completed /\ log[i].distance >= 1 /\ log[i].distance < INF

\* C6: in every state and for every set s, set_counters[s] is 1 plus the
\* number of requests (hits and misses) completed so far for s, over all
\* windows of active blocks.
C6_CounterIsCompletionsPlusOne ==
  \A s \in DOMAIN set_counters : set_counters[s] = completions[s] + 1

\* a second window is running and a set has completed several requests, one
\* of them for a line completed before
C6_Witness ==
  /\ snum >= 1
  /\ \E s \in DOMAIN set_counters :
       /\ completions[s] >= 2
       /\ completions[s] > NodeValue(B[s], Root(B[s]))

\* the request an access of the log put on a queue
RequestOf(a) == [time |-> a.arrival_time, addr |-> a.line, set |-> a.set]

Queued(q, a) ==
  \E j \in DOMAIN q[a.set].request_list : q[a.set].request_list[j] = RequestOf(a)

\* the accesses of the log that went to queue k
LogCount(l, k) == Cardinality({ i \in DOMAIN l : l[i].queue = k })

\* C7: an access of width > 0 that is scheduled goes to the miss queue of
\* its set, with arrival_time = timestamp + mem_latency + noise, exactly when
\* its distance is INF or >= cache_ways, and otherwise to the hit queue of its
\* set, with arrival_time = timestamp + non_mem_latency; each scheduled access
\* adds one request to one of the two queues, so none is on both.  (An access
\* unscheduled for want of an MSHR is not scheduled: it is on no queue.)
C7_MissIffInfOrBeyondWays ==
  [][ pc' = "drain" =>
        /\ \A i \in DOMAIN log' :
             LET a == log'[i]
             IN /\ a.queue \in {"miss", "hit", "none"}
                /\ a.queue = "none" => (a.distance = INF \/ a.distance >= cfg.cache_ways)
                /\ a.queue = "miss" <=>
                     /\ a.distance = INF \/ a.distance >= cfg.cache_ways
                     /\ a.queue # "none"
                /\ a.queue = "miss" =>
                     /\ Queued(requests_miss', a)
                     /\ \E noise \in NoiseValues(cfg) :
                          a.arrival_time = timestamp + cfg.mem_latency + noise
                /\ a.queue = "hit" =>
                     /\ Queued(requests_hit', a)
                     /\ a.arrival_time = timestamp + cfg.non_mem_latency
        /\ QueueLen(requests_miss') = QueueLen(requests_miss) + LogCount(log', "miss")
        /\ QueueLen(requests_hit') = QueueLen(requests_hit) + LogCount(log', "hit")
    ]_vars

\* a slice scheduled a miss of finite distance: the line was in the stack,
\* cache_ways or more lines above it
C7_Witness ==
  /\ pc = "drain"
  /\ \E i \in DOMAIN log :
       /\ log[i].queue = "miss"
       /\ log[i].distance # INF
       /\ log[i].distance = cfg.cache_ways

FreqWhere(d, Keep(_)) ==
  LET keep == { x \in DOMAIN d : Keep(x) }
  IN SumFun([x \in keep |-> d[x]], keep)

\* C9: the five components written (compulsory, capacity, max(0,
\* associativity), max(0, latency), max(0, mshr)) are >= 0 and add up to
\* total_misses = miss[0], also when rest is negative.  (Stated as the claim
\* has it: with a negative rest the overshoot is added to a component, not
\* taken from it, and the sum exceeds total_misses.)
C9_ComponentsAddUp ==
  cl.pc = "reported" =>
    /\ cl.out.modelled_compulsory >= 0
    /\ cl.out.modelled_capacity >= 0
    /\ cl.out.modelled_associativity >= 0
    /\ cl.out.modelled_latency >= 0
    /\ cl.out.modelled_mshr >= 0
    /\ cl.out.modelled_compulsory + cl.out.modelled_capacity
         + cl.out.modelled_associativity + cl.out.modelled_latency
         + cl.out.modelled_mshr = cl.out.total_misses

\* C10: for each run i, miss_compulsory[i] is the frequency of INF and
\* miss_capacity[i] the total frequency of the finite distances above the
\* run's cache_ways (cache_ways*cache_sets for run 1); hits are those of run 0
\* only; and modelled_accesses = miss[0] + hits is the total frequency of the
\* histogram of run 0.
C10_CountsPerRun ==
  cl.pc = "reported" =>
    /\ \A i \in 0 .. (NUM_CASES - 1) :
         /\ cl.counts.miss_compulsory[i] = Freq(cl.distances[i], INF)
         /\ cl.counts.miss_capacity[i] =
              FreqWhere(cl.distances[i],
                        LAMBDA x : x # INF /\ x > (IF i = 1
                                                   THEN hardware.cache_ways
                                                          * hardware.cache_sets
                                                   ELSE hardware.cache_ways))
         /\ cl.counts.miss[i] = cl.counts.miss_compulsory[i] + cl.counts.miss_capacity[i]
    /\ cl.counts.hits =
         FreqWhere(cl.distances[0], LAMBDA x : x # INF /\ x <= hardware.cache_ways)
    /\ cl.out.modelled_hits = cl.counts.hits
    /\ cl.out.modelled_accesses = cl.counts.miss[0] + cl.counts.hits
    /\ cl.out.modelled_accesses = FreqWhere(cl.distances[0], LAMBDA x : TRUE)

\* run 0 has hits and misses, and another run has accesses that would be hits
C10_Witness ==
  /\ cl.pc = "reported"
  /\ cl.out.modelled_hits >= 1
  /\ cl.out.total_misses >= 1
  /\ \E i \in 1 .. (NUM_CASES - 1) :
       \E x \in DOMAIN cl.distances[i] : x # INF /\ x <= hardware.cache_ways


(***************************************************************************)
(* The engine against the classifier, and the scenarios of the design      *)
(***************************************************************************)
\* C11: an access of run 0 whose distance equals cache_ways is put on the
\* miss queue by the engine and is counted by the classifier neither as a
\* capacity miss nor as a hit.  (Stated as the claim has it, for every access
\* the engine puts on the miss queue in run 0: the classifier's test is
\* distance > cache_ways, and the branch that is left counts it as a hit.)
C11_EngineMissIsNoClassifierHit ==
  (pc = "drain" /\ cfg.runs = 0) =>
    \A i \in DOMAIN log :
      log[i].queue = "miss" =>
        /\ IsMiss(log[i].distance, cfg.cache_ways)
        /\ ~IsHit(log[i].distance, 0)


\* the threads that have accesses
Working == { tid \in DOMAIN threads : Len(threads[tid]) > 0 }

\* scenario S1: a trace of one thread (thread 0), two reads of the same
\* cache line
S1 ==
  /\ DOMAIN threads = {0}
  /\ \A tid \in Working :
       /\ Len(threads[tid]) = 2
       /\ LineOf(threads[tid][1].address) = LineOf(threads[tid][2].address)

\* what output_miss_rate derives when every run returns the histogram d
ReportOfAllRuns(d) == Derive(CountMisses([i \in 0 .. (NUM_CASES - 1) |-> d]))

\* C12: in scenario S1, in each of the four runs, the first access is
\* recorded with distance INF and the second with distance 0, the histogram
\* on return is {INF:1, 0:1}, and the classifier reports 1 hit and 1 miss.
C12_ScenarioS1 ==
  S1 =>
    /\ \A i \in DOMAIN log :
         /\ log[i].index = 0 => (log[i].distance = INF /\ log[i].queue = "miss")
         /\ log[i].index = 1 => (log[i].distance = 0 /\ log[i].queue = "hit")
    /\ pc = "done" =>
         /\ DOMAIN distances = {0, INF}
         /\ distances[0] = 1
         /\ distances[INF] = 1
         /\ ReportOfAllRuns(distances).modelled_hits = 1
         /\ ReportOfAllRuns(distances).total_misses = 1

\* a run of S1 with memory latency that returned: the second read waited for
\* the first request to complete
C12_Witness ==
  /\ S1
  /\ pc = "done"
  /\ cfg.mem_latency > 0
  /\ timestamp >= 3
  /\ Freq(distances, 0) = 1


\* the accesses <<tid, index>> of width > 0
Issued == { q \in Positions(threads) : threads[q[1]][q[2]].width # 0 }

\* scenario S3: two warps of one window (threads 0 and 2 are the first
\* threads of warps 0 and 1), each with one access of width > 0, to the same
\* line
S3 ==
  /\ DOMAIN threads = 0 .. 2
  /\ active_blocks = 2
  /\ \A tid \in DOMAIN threads : Len(threads[tid]) <= 1
  /\ Issued = {<<0, 1>>, <<2, 1>>}
  /\ LineOf(threads[0][1].address) = LineOf(threads[2][1].address)

\* C13 as stated: in scenario S3, for every num_mshr >= 1 and every
\* mem_latency, the access of the second warp is recorded with distance 0,
\* after the request of the first warp has completed.
C13_SecondWarpHits ==
  S3 =>
    \A i \in DOMAIN log :
      (log[i].tid = 2 /\ log[i].queue # "none") =>
        (log[i].distance = 0 /\ log[i].was_completed)

\* C13, amended: in scenario S3 the access of the second warp is recorded
\* with distance 0, after the first warp's request has completed, when
\* the run has no memory latency (mem_latency = 0, mem_latency_stddev = 0) or
\* num_mshr = 1 (the access, on the warp's first thread, is unscheduled until
\* the MSHR is free); with mem_latency > 0 and num_mshr > 1 it is issued
\* while the first request is in flight and is recorded with distance INF.
C13_SecondWarpHitsOrLatencyMiss ==
  S3 =>
    \A i \in DOMAIN log :
      (log[i].tid = 2 /\ log[i].queue # "none") =>
        /\ ((cfg.mem_latency = 0 /\ cfg.mem_latency_stddev = 0) \/ cfg.num_mshr = 1)
             => (log[i].distance = 0 /\ log[i].was_completed /\ log[i].queue = "hit")
        /\ (cfg.mem_latency > 0 /\ cfg.num_mshr > 1)
             => (log[i].distance = INF /\ ~log[i].was_completed
                 /\ log[i].queue = "miss")

\* the second warp was unscheduled, retried and hit
C13_Witness ==
  /\ S3
  /\ cfg.mem_latency > 0
  /\ unscheduled >= 1
  /\ \E i \in DOMAIN log :
       log[i].tid = 2 /\ log[i].queue = "hit" /\ log[i].distance = 0


\* scenario S4, with K distinct lines: a trace of one thread that touches K
\* lines of set 0, K > cache_ways, and then the first of them again
S4(K) ==
  /\ DOMAIN threads = {0}
  /\ Len(threads[0]) = K + 1
  /\ K > cfg.cache_ways
  /\ \A a \in 1 .. K :
       /\ SetOfAddress(threads[0][a].address, cfg) = 0
       /\ \A b \in 1 .. K :
            a # b => LineOf(threads[0][a].address) # LineOf(threads[0][b].address)
  /\ LineOf(threads[0][K + 1].address) = LineOf(threads[0][1].address)

\* C14: in scenario S4 the run records K accesses at distance INF and one at
\* distance K-1, and the classifier counts the latter as a capacity miss, for
\* every K > cache_ways.  (Stated as the claim has it: for K = cache_ways + 1
\* the distance is cache_ways, which the classifier's test
\* distance > cache_ways does not count as capacity.)
C14_ScenarioS4 ==
  \A K \in 1 .. MaxTotal :
    (S4(K) /\ pc = "done") =>
      /\ Freq(distances, INF) = K
      /\ Freq(distances, K - 1) = 1
      /\ distances_total(distances) = K + 1
      /\ IsCapacity(K - 1, cfg.runs)



\* scenario S5: num_mshr = 1 and two warps of one window (threads 0 and 2
\* are their first threads), each with one access of width > 0, to
\* different lines
S5 ==
  /\ cfg.num_mshr = 1
  /\ DOMAIN threads = 0 .. 2
  /\ active_blocks = 2
  /\ \A tid \in DOMAIN threads : Len(threads[tid]) <= 1
  /\ Issued = {<<0, 1>>, <<2, 1>>}
  /\ LineOf(threads[0][1].address) # LineOf(threads[2][1].address)

\* C15 as stated: in scenario S5 the first thread of the second warp is
\* unscheduled exactly once, both accesses are recorded as misses (2 in all)
\* and the final timestamp is at least mem_latency.
C15_UnscheduledOnce ==
  (S5 /\ pc = "done") =>
    /\ unscheduled = 1
    /\ Freq(distances, INF) = 2
    /\ distances_total(distances) = 2
    /\ timestamp >= cfg.mem_latency

\* C15, amended: in scenario S5 the first thread of the second warp is
\* unscheduled on every tick from tick 1 until the request of the first warp
\* has completed, that is as many times as the memory latency of that request
\* (mem_latency plus its noise: not at all for latency 0); its miss is issued
\* on the tick after the last unschedule; both accesses are recorded as
\* misses (2 in all) and the final timestamp is at least mem_latency.
C15_UnscheduledUntilCompletion ==
  S5 =>
    /\ pc = "drain" => \A i \in DOMAIN log :
         /\ log[i].queue = "none" =>
              /\ log[i].tid = 2
              /\ timestamp = unscheduled
              /\ LineOf(threads[0][1].address) \notin completed
         /\ (log[i].tid = 2 /\ log[i].queue # "none") =>
              /\ log[i].queue = "miss"
              /\ log[i].distance = INF
              /\ timestamp = unscheduled + 1
              /\ LineOf(threads[0][1].address) \in completed
    /\ pc = "done" =>
         /\ \E noise \in NoiseValues(cfg) : unscheduled = cfg.mem_latency + noise
         /\ Freq(distances, INF) = 2
         /\ distances_total(distances) = 2
         /\ timestamp >= cfg.mem_latency

\* a run of S5 that unscheduled the second warp on two ticks
C15_Witness ==
  /\ S5
  /\ pc = "done"
  /\ unscheduled = 2


(***************************************************************************)
(* CoalesceSpec : the coalescing pass of schedule_threads (scheduler.cpp,  *)
(* lines 56-100) run over a trace, and run over its own result once more.  *)
(* The traces also have loads at address 4, which share line 0 with the    *)
(* loads at address 0 without having their address.                        *)
(***************************************************************************)
CoalesceKinds == Kinds \cup { [address |-> 4, bytes |-> 4] }

CoalesceInit ==
  /\ EngineOff
  /\ cl = [pc |-> "off"]
  /\ \E f \in TraceFilesOf(CoalesceKinds) :
       LET raw == ReadFile(f[1], f[2])
       IN fn = [ pc |-> "read", threads |-> raw, first |-> <<>>,
                 warps |-> AssignWarps(Cardinality(DOMAIN raw)) ]

\* the pass as schedule_threads runs it
CoalescePass ==
  /\ fn.pc = "read"
  /\ \E G \in SUBSET OutOfBoundsReads(fn.threads, fn.warps) :
       fn' = [fn EXCEPT !.pc = "once",
                        !.threads = Coalesce(fn.threads, fn.warps, G)]
  /\ UNCHANGED << engine_vars, cl >>

\* the pass over the threads it has coalesced; first keeps what it started from
CoalescePassAgain ==
  /\ fn.pc = "once"
  /\ \E G \in SUBSET OutOfBoundsReads(fn.threads, fn.warps) :
       fn' = [fn EXCEPT !.pc = "twice",
                        !.first = fn.threads,
                        !.threads = Coalesce(fn.threads, fn.warps, G)]
  /\ UNCHANGED << engine_vars, cl >>

CoalesceNext == CoalescePass \/ CoalescePassAgain

CoalesceSpec == CoalesceInit /\ [][CoalesceNext]_vars

\* the accesses <<tid, index>> of the threads thr
AccessesOf(thr) ==
  { q \in (DOMAIN thr) \X (1 .. MaxTotal) : q[2] <= Len(thr[q[1]]) }

\* C16 as stated: a second coalescing pass leaves the width and the
\* end_address of every access as the first pass left them.
C16_CoalescingIdempotent ==
  fn.pc = "twice" =>
    \A q \in AccessesOf(fn.threads) :
      /\ fn.threads[q[1]][q[2]].width = fn.first[q[1]][q[2]].width
      /\ fn.threads[q[1]][q[2]].end_address = fn.first[q[1]][q[2]].end_address

\* C16, amended: when no read of the pass is out of bounds, a second pass
\* leaves every end_address and every width of 0 as the first pass left
\* them, and leaves no other width at 0, but it counts the absorbed accesses
\* again: a width of 1 + n after the first pass is 1 + 2n after the second.
C16_SecondPassCountsAgain ==
  (fn.pc = "twice" /\ OutOfBoundsReads(fn.first, fn.warps) = {}) =>
    \A q \in AccessesOf(fn.threads) :
      LET once == fn.first[q[1]][q[2]]
          twice == fn.threads[q[1]][q[2]]
      IN /\ twice.end_address = once.end_address
         /\ twice.address = once.address
         /\ twice.bytes = once.bytes
         /\ twice.width = IF once.width = 0 THEN 0 ELSE 2 * once.width - 1

\* a second pass that took a width from 2 to 3
C16_Witness ==
  /\ fn.pc = "twice"
  /\ OutOfBoundsReads(fn.first, fn.warps) = {}
  /\ \E q \in AccessesOf(fn.threads) :
       /\ fn.first[q[1]][q[2]].width = 2
       /\ fn.threads[q[1]][q[2]].width = 3
       /\ fn.threads[q[1]][q[2]].end_address > fn.threads[q[1]][q[2]].address + 3


(***************************************************************************)
(* HashSpec : one call of line_addr_to_set (associativity.cpp), for every  *)
(* line address of 13 bits, which are the bits the Fermi hash reads, and   *)
(* for small numbers of sets and the 32 and 64 sets of the Fermi caches.   *)
(***************************************************************************)
MaxLineAddr == 8191
MaxSets == 8

HashSets == (1 .. MaxSets) \cup {32, 64}

HashInit ==
  /\ EngineOff
  /\ cl = [pc |-> "off"]
  /\ \E line_addr \in 0 .. MaxLineAddr, num_sets \in HashSets :
       fn = [ pc |-> "call", line_addr |-> line_addr, num_sets |-> num_sets,
              set |-> 0 ]

HashCall ==
  /\ fn.pc = "call"
  /\ fn' = [fn EXCEPT !.pc = "returned",
                      !.set = line_addr_to_set(fn.line_addr, fn.num_sets)]
  /\ UNCHANGED << engine_vars, cl >>

HashNext == HashCall

HashSpec == HashInit /\ [][HashNext]_vars

\* C17: for every line address and every num_sets >= 1, line_addr_to_set
\* returns a set in [0, num_sets), so that with one set (the run with full
\* associativity) every line maps to set 0 and set < cache_sets holds.
C17_SetInRange ==
  fn.pc = "returned" =>
    /\ fn.set \in 0 .. (fn.num_sets - 1)
    /\ fn.set < fn.num_sets
    /\ fn.num_sets = 1 => fn.set = 0

\* a line whose hash is 63 before the modulo, mapped to set 0 of one set
C17_Witness ==
  /\ fn.pc = "returned"
  /\ fn.num_sets = 1
  /\ line_addr_to_set(fn.line_addr, 64) = 63
  /\ fn.line_addr >= 4096
  /\ fn.set = 0


\* C18: reuse_distance leaves its shared inputs as it found them: no step of
\* a run changes an access list (address, bytes, width, end_address), the
\* warps, the blocks or the core list, and on return every thread's pc is 0,
\* as it was on entry.
C18_InputsUnchanged ==
  /\ [](pc = "done" => \A tid \in DOMAIN threads : tpc[tid] = 0)
  /\ [][ /\ threads' = threads
         /\ warps' = warps
         /\ blocks' = blocks
         /\ core' = core ]_vars

\* a run has returned after a thread has issued its two accesses
C18_Witness ==
  /\ pc = "done"
  /\ \E tid \in DOMAIN threads :
       /\ Len(threads[tid]) = 2
       /\ threads[tid][1].width # 0
       /\ threads[tid][2].width # 0
       /\ tpc[tid] = 0
  /\ distances_total(distances) >= 2


\* the assertions of Thread, of the lookup and of line_addr_to_set's caller
\* hold: every pc is within its access list, schedule() was called with
\* pc < number of accesses, every thread is in one warp (set_warp once),
\* every set index is < cache_sets, and every previous_time read from P is
\* < set_counters[set]
OtherAssertionsHold ==
  /\ \A tid \in DOMAIN threads : tpc[tid] \in 0 .. Len(threads[tid])
  /\ \A tid \in DOMAIN threads :
       Cardinality({ w \in DOMAIN warps :
                       \E i \in DOMAIN warps[w] : warps[w][i] = tid }) = 1
  /\ pc = "drain" =>
       \A i \in DOMAIN log :
         /\ log[i].index < Len(threads[log[i].tid])
         /\ log[i].queue = "none" => tpc[log[i].tid] = log[i].index
         /\ log[i].set < cfg.cache_sets
         /\ P[log[i].line] # 0 => P[log[i].line] < set_counters[log[i].set]

\* C19 as stated: in every reachable state of any run no assertion fires;
\* in particular is_done() is only called on a pool of size > 0.
C19_NoAssertionFires ==
  /\ OtherAssertionsHold
  /\ pc = "loop" => is_done_assertion(pool)
  /\ pc # "abort"


(***************************************************************************)
(* SliceSpec : the runs of reuse_distance over traces of four threads, two *)
(* full warps in two blocks, each thread with at most one load.  A warp    *)
(* whose first thread loads 8 bytes is run as two slices of one lane.      *)
(***************************************************************************)
SliceTraces ==
  { raw \in [0 .. 3 -> {<<>>} \cup { <<Access(k)>> : k \in Kinds }] :
      raw[3] # <<>> }

SliceInit ==
  /\ \E raw \in SliceTraces :
       \E G \in SUBSET OutOfBoundsReads(raw, AssignWarps(Cardinality(DOMAIN raw))) :
         \E runs \in 0 .. (NUM_CASES - 1), mab \in MaxActiveBlocks :
           EngineInit(raw, G, runs, mab)
  /\ cl = [pc |-> "off"]
  /\ fn = [pc |-> "off"]

SliceSpec == SliceInit /\ [][Next]_vars

\* the slice that has just run unscheduled the warp's first thread for want
\* of an MSHR
Backpressured ==
  /\ Len(log) > 0
  /\ log[Len(log)].queue = "none"

\* C20 as stated: when backpressure triggers for a taken warp, no thread of
\* the warp enqueues a request or records a distance in that take, every
\* thread of the warp keeps its pc, and the warp returns to the pool with
\* delay 0, also when the accesses are of 8 bytes and the warp is run as
\* several slices.
C20_BackpressureLeavesTakeWithoutEffect ==
  [][ /\ (pc = "loop" /\ pc' = "drain" /\ Backpressured')
         => /\ tpc' = tpc
            /\ distances' = distances
            /\ requests_miss' = requests_miss
            /\ requests_hit' = requests_hit
            /\ max_future_time' = 0
      /\ (pc = "slice" /\ Backpressured)
         => /\ tpc' = tpc
            /\ distances' = distances
            /\ requests_miss' = requests_miss
            /\ requests_hit' = requests_hit
            /\ max_future_time' = 0 ]_vars

\* the part of C20 that holds: the slice in which backpressure triggers has
\* no effect, and a warp run as one slice returns with delay 0
BackpressuredSliceWithoutEffect ==
  [][ (pc = "loop" /\ pc' = "drain" /\ Backpressured')
        => /\ tpc' = tpc
           /\ distances' = distances
           /\ requests_miss' = requests_miss
           /\ requests_hit' = requests_hit
           /\ max_future_time' = 0
           /\ Len(log') = 1
           /\ portions' = 1 => ~(warp_portion' + 1 < portions') ]_vars



(***************************************************************************)
(* Completion, order and the windows of active blocks                      *)
(***************************************************************************)
\* the requests of the queues q of set s that are keyed at time t
Due(q, s, t) ==
  { i \in DOMAIN q[s].request_list : q[s].request_list[i].time = t }

\* the line addresses with a request keyed at time t
DueLines(t) ==
  UNION { { requests_hit[s].request_list[i].addr : i \in Due(requests_hit, s, t) }
            \cup { requests_miss[s].request_list[i].addr :
                     i \in Due(requests_miss, s, t) } : s \in DOMAIN requests_hit }

\* the requests of a queue that are keyed later than time t, in order
Later(r, t) == SelectSeq(r.request_list, LAMBDA q : q.time > t)

\* C21: a request changes P, the stack tree and the set counter only at
\* completion.  No queued request is keyed before the current tick; a step
\* changes P, B and set_counters for exactly the requests keyed at the
\* current tick (the counter of a set grows by their number, their lines get
\* fresh positions that are set in the tree, every other line keeps its
\* position) and leaves the later requests queued; and no request is left
\* behind when the queues of a window are given up.
C21_ChangeOnlyAtCompletion ==
  [][ /\ \A s \in DOMAIN requests_hit :
           /\ \A i \in DOMAIN requests_hit[s].request_list :
                requests_hit[s].request_list[i].time >= timestamp
           /\ \A i \in DOMAIN requests_miss[s].request_list :
                requests_miss[s].request_list[i].time >= timestamp
      /\ (pc = "window" \/ pc' = "done") =>
           (QueueLen(requests_hit) = 0 /\ QueueLen(requests_miss) = 0)
      /\ (pc' \in {"loop", "slice"} /\ pc \in {"loop", "drain"})
           => /\ \A s \in DOMAIN set_counters :
                   set_counters'[s] = set_counters[s]
                     + Cardinality(Due(requests_hit, s, timestamp))
                     + Cardinality(Due(requests_miss, s, timestamp))
              /\ \A l \in DOMAIN P :
                   IF l \in DueLines(timestamp)
                   THEN LET s == line_addr_to_set(l, cfg.cache_sets)
                        IN /\ P'[l] >= set_counters[s]
                           /\ P'[l] < set_counters'[s]
                           /\ NodeValue(B'[s], <<P'[l], 1>>) = 1
                   ELSE P'[l] = P[l]
              /\ \A s \in DOMAIN requests_hit :
                   /\ requests_hit'[s].request_list = Later(requests_hit[s], timestamp)
                   /\ requests_miss'[s].request_list = Later(requests_miss[s], timestamp)
      /\ ~(pc' \in {"loop", "slice"} /\ pc \in {"loop", "drain"})
           => /\ P' = P
              /\ B' = B
              /\ set_counters' = set_counters ]_vars

\* a miss request that waits in its queue for a later tick, P and the trees
\* as they were when it was enqueued
C21_Witness ==
  /\ pc = "loop"
  /\ \E s \in DOMAIN requests_miss :
       \E i \in DOMAIN requests_miss[s].request_list :
         /\ requests_miss[s].request_list[i].time > timestamp
         /\ P[requests_miss[s].request_list[i].addr] = 0
  /\ \E l \in DOMAIN P : P[l] # 0


\* the entries of the log l that put a request on a queue
Enqueued(l) == { i \in DOMAIN l : l[i].queue # "none" }

\* C22: every access of width > 0 is processed once, in the order of its
\* thread's pc.  A slice moves the pc of a thread by at most one access; an
\* access it passes is either of width 0, and leaves no trace, or is the
\* access at the thread's pc and gives one histogram increment and one
\* request; an access undone by unschedule() leaves the pc, the histogram and
\* the queues as they were; outside a slice no pc, histogram entry or request
\* is made; and the run ends only when every pc has reached the end of its
\* access list.
C22_EachAccessOnceInOrder ==
  [][ /\ (pc' = "drain")
         => /\ \A tid \in DOMAIN threads :
                 \/ /\ tpc'[tid] = tpc[tid]
                    /\ \A i \in Enqueued(log') : log'[i].tid # tid
                 \/ /\ tpc'[tid] = tpc[tid] + 1
                    /\ tpc'[tid] <= Len(threads[tid])
                    /\ IF threads[tid][tpc[tid] + 1].width = 0
                       THEN \A i \in DOMAIN log' : log'[i].tid # tid
                       ELSE Cardinality({ i \in Enqueued(log') :
                                            /\ log'[i].tid = tid
                                            /\ log'[i].index = tpc[tid] }) = 1
            /\ \A i \in DOMAIN log' :
                 /\ threads[log'[i].tid][log'[i].index + 1].width # 0
                 /\ log'[i].index = tpc[log'[i].tid]
            /\ distances_total(distances') =
                 distances_total(distances) + Cardinality(Enqueued(log'))
            /\ QueueLen(requests_hit') + QueueLen(requests_miss') =
                 QueueLen(requests_hit) + QueueLen(requests_miss)
                   + Cardinality(Enqueued(log'))
      /\ (pc' # "drain")
         => /\ distances' = distances
            /\ pc' # "done" => tpc' = tpc
            /\ QueueLen(requests_hit') + QueueLen(requests_miss') <=
                 QueueLen(requests_hit) + QueueLen(requests_miss)
      /\ (pc' = "done")
         => /\ \A tid \in DOMAIN threads : tpc[tid] = Len(threads[tid])
            /\ distances_total(distances) = Cardinality(Issued) ]_vars

\* a run has ended in which an access was undone and recorded at its retry,
\* and an access of width 0 was passed
C22_Witness ==
  /\ pc = "done"
  /\ unscheduled > 0
  /\ \E p \in Positions(threads) : threads[p[1]][p[2]].width = 0
  /\ distances_total(distances) = Cardinality(Issued)
  /\ Cardinality(Issued) >= 2


\* the positions (from 0) in the core list of the blocks of window k
WindowBlocks(k) ==
  { bnum \in 0 .. (Len(core) - 1) :
      k * active_blocks <= bnum /\ bnum < (k + 1) * active_blocks }

\* the warps of the blocks of window k
WindowWarps(k) ==
  UNION { { blocks[core[bnum + 1]][i] : i \in DOMAIN blocks[core[bnum + 1]] } :
            bnum \in WindowBlocks(k) }

\* the window of the block that holds thread tid's warp
WindowOfThread(tid) ==
  CHOOSE k \in 0 .. Len(core) :
    \E w \in WindowWarps(k) : \E i \in DOMAIN warps[w] : warps[w][i] = tid

\* C23: the blocks of the core are processed in consecutive windows of at
\* most active_blocks blocks.  Every block is in one window; the pool a
\* window starts with holds the warps of its blocks, each once, all ready;
\* a thread of a later window has issued nothing, a thread of an earlier
\* window has issued everything, and a window is left only when all its
\* warps are counted done; the run ends after the last window; and P, the
\* trees, the set counters and the timestamp are carried from window to
\* window.
C23_ConsecutiveWindows ==
  [][ /\ \A bnum \in 0 .. (Len(core) - 1) :
           /\ Cardinality({ k \in 0 .. (NumWindows - 1) : bnum \in WindowBlocks(k) }) = 1
           /\ \A k \in 0 .. (NumWindows - 1) :
                Cardinality(WindowBlocks(k)) \in 1 .. active_blocks
      /\ \A tid \in DOMAIN threads :
           /\ WindowOfThread(tid) > snum => tpc[tid] = 0
           /\ WindowOfThread(tid) < snum => (pc = "done" \/ tpc[tid] = Len(threads[tid]))
      /\ (pc = "window" /\ pc' = "loop")
           => /\ { pool'.warps[i] : i \in DOMAIN pool'.warps } = WindowWarps(snum)
              /\ Len(pool'.warps) = Cardinality(WindowWarps(snum))
              /\ pool'.size = Len(pool'.warps)
              /\ pool'.done = 0
              /\ DOMAIN pool'.in_flight = {}
      /\ (pc = "loop" /\ pc' = "window")
           => /\ pool.done = pool.size
              /\ pool.size = Cardinality(WindowWarps(snum))
              /\ snum' = snum + 1
      /\ (pc = "window" \/ pc' = "window")
           => /\ P' = P
              /\ B' = B
              /\ set_counters' = set_counters
              /\ timestamp' = timestamp
      /\ pc' = "done" => snum = NumWindows ]_vars

\* the second window has started with what the first one left in P, in the
\* set counters and in the timestamp
C23_Witness ==
  /\ pc = "loop"
  /\ snum = 1
  /\ timestamp > 0
  /\ \E l \in DOMAIN P : P[l] # 0
  /\ \E s \in DOMAIN set_counters : set_counters[s] > 1
  /\ pool.warps = <<1>>
  /\ tpc[2] = 0
  /\ Len(threads[2]) > 0


\* the requests of set s keyed at the current timestamp, in the order the
\* claim gives them: the hits in insertion order, then the misses in
\* insertion order
DueInOrder(s) ==
  CurrentRequests(requests_hit[s], timestamp)
    \o CurrentRequests(requests_miss[s], timestamp)

\* C24: at every drain point, the requests of a set keyed at the current
\* timestamp are completed hits first, then misses, each queue in insertion
\* order: the j-th of them in that order takes position set_counters[s]+j-1,
\* which is the line's position in P and a set leaf of the tree afterwards
\* unless a later request of the same drain is for the same line.  (The sets
\* share no line, tree or counter, so the order between sets, ascending in
\* Drain, leaves no trace in the state.)
C24_HitsBeforeMissesInOrder ==
  [][ (pc' \in {"loop", "slice"} /\ pc \in {"loop", "drain"})
        => \A s \in DOMAIN set_counters :
             \A j \in DOMAIN DueInOrder(s) :
               LET l == DueInOrder(s)[j].addr
                   last == \A k \in DOMAIN DueInOrder(s) :
                             DueInOrder(s)[k].addr = l => k <= j
                   position == set_counters[s] + j - 1
               IN /\ last => P'[l] = position
                  /\ last <=> NodeValue(B'[s], <<position, 1>>) = 1 ]_vars

\* a drain point with a hit and a miss of one set, for different lines, both
\* keyed at the current timestamp
C24_Witness ==
  /\ pc = "drain"
  /\ \E s \in DOMAIN requests_hit :
       \E i \in Due(requests_hit, s, timestamp) :
         \E j \in Due(requests_miss, s, timestamp) :
           requests_hit[s].request_list[i].addr # requests_miss[s].request_list[j].addr



(***************************************************************************)
(* PoolSpec : the Pool of model.h on its own.  Warps are added with a      *)
(* delay, released by process_warps_in_flight and taken, in any order the  *)
(* class allows (take_warp needs a ready warp, and a warp that is in the   *)
(* pool is not added again).  The history variables of fn record, for each *)
(* warp in the pool, the delay it was added with, the number of calls of   *)
(* process_warps_in_flight made before it was added, and the moment it     *)
(* became ready; taken holds the moment the warp last taken became ready   *)
(* and those of the warps that were ready with it.                         *)
(***************************************************************************)
MaxDelay == 2
MaxClock == 7
PoolWarps == 0 .. 2

PoolInit ==
  /\ EngineOff
  /\ cl = [pc |-> "off"]
  /\ fn = [ pc |-> "pool", pool |-> Pool, delay |-> <<>>, added |-> <<>>,
            ready |-> <<>>, calls |-> 0, clock |-> 0, taken |-> <<>> ]

InPool(f, w) ==
  \/ w \in DOMAIN f.pool.in_flight
  \/ \E i \in DOMAIN f.pool.warps : f.pool.warps[i] = w

\* f with x recorded for warp w
Noted(f, w, x) == [v \in DOMAIN f \cup {w} |-> IF v = w THEN x ELSE f[v]]

PoolAddWarp ==
  /\ fn.pc = "pool"
  /\ fn.clock < MaxClock
  /\ \E w \in PoolWarps, d \in 0 .. MaxDelay :
       /\ ~InPool(fn, w)
       /\ fn' = [fn EXCEPT !.pool = add_warp(@, w, d),
                           !.delay = Noted(@, w, d),
                           !.added = Noted(@, w, fn.calls),
                           !.ready = Noted(@, w, fn.clock),
                           !.clock = @ + 1]
  /\ UNCHANGED << engine_vars, cl >>

PoolProcess ==
  /\ fn.pc = "pool"
  /\ fn.clock < MaxClock
  /\ LET p == process_warps_in_flight(fn.pool)
     IN fn' = [fn EXCEPT !.pool = p,
                         !.calls = @ + 1,
                         !.ready = [w \in DOMAIN @ |->
                                      IF w \in DOMAIN fn.pool.in_flight
                                           /\ w \notin DOMAIN p.in_flight
                                      THEN fn.clock ELSE @[w]],
                         !.clock = @ + 1]
  /\ UNCHANGED << engine_vars, cl >>

\* take_warp, called as reuse_distance calls it: when has_work()
PoolTakeWarp ==
  /\ fn.pc = "pool"
  /\ has_work(fn.pool)
  /\ fn' = [fn EXCEPT !.pool = [@ EXCEPT !.warps = Tail(@)],
                      !.taken = << fn.ready[Head(fn.pool.warps)],
                                   [i \in DOMAIN fn.pool.warps |->
                                      fn.ready[fn.pool.warps[i]]] >>]
  /\ UNCHANGED << engine_vars, cl >>

PoolNext == PoolAddWarp \/ PoolProcess \/ PoolTakeWarp

PoolSpec == PoolInit /\ [][PoolNext]_vars

\* C25: a warp added with delay 0 is ready at once, at the back of the ready
\* queue; a warp added with delay d > 0 is out of the ready queue for the
\* next d calls of process_warps_in_flight and goes to the back of the ready
\* queue on call d + 1; the ready queue is in the order in which the warps
\* became ready, and take_warp returns its front, the warp ready longest.
C25_PoolTiming ==
  fn.pc = "pool" =>
    /\ \A w \in DOMAIN fn.pool.in_flight :
         /\ fn.delay[w] > 0
         /\ fn.calls - fn.added[w] <= fn.delay[w]
         /\ fn.pool.in_flight[w] = fn.delay[w] - (fn.calls - fn.added[w])
         /\ \A i \in DOMAIN fn.pool.warps : fn.pool.warps[i] # w
    /\ \A i \in DOMAIN fn.pool.warps :
         LET w == fn.pool.warps[i]
         IN /\ fn.delay[w] > 0 => fn.calls - fn.added[w] >= fn.delay[w] + 1
            /\ \A j \in DOMAIN fn.pool.warps :
                 /\ i < j => fn.ready[w] <= fn.ready[fn.pool.warps[j]]
                 /\ i # j => fn.pool.warps[j] # w
    /\ \A w \in PoolWarps :
         (w \in DOMAIN fn.delay /\ InPool(fn, w))
           => /\ (fn.delay[w] = 0 \/ fn.calls - fn.added[w] >= fn.delay[w] + 1)
                   => w \notin DOMAIN fn.pool.in_flight
              /\ fn.delay[w] = 0 => fn.ready[w] < fn.clock
    /\ fn.taken # <<>> =>
         \A i \in DOMAIN fn.taken[2] : fn.taken[1] <= fn.taken[2][i]

\* a warp added with delay 2 has come to the back of the ready queue on the
\* third call, behind a warp that was ready before it
C25_Witness ==
  /\ fn.pc = "pool"
  /\ Len(fn.pool.warps) = 2
  /\ fn.delay[fn.pool.warps[2]] = 2
  /\ fn.calls - fn.added[fn.pool.warps[2]] = 3
  /\ fn.ready[fn.pool.warps[1]] < fn.ready[fn.pool.warps[2]]
  /\ fn.ready[fn.pool.warps[2]] = fn.clock - 1



(***************************************************************************)
(* The result of schedule_threads                                          *)
(***************************************************************************)
\* lane n (from 0) of warp w has, in column a (from 0) of the threads thr, an
\* earlier lane of its group with an access in that column on the same line
AbsorbedBy(thr, ws, w, n, a) ==
  LET tid == ws[w][n + 1]
      sl == ScheduleLength(thr[tid][a + 1].bytes)
  IN \E m \in (sl * (n \div sl)) .. (n - 1) :
       /\ a < Len(thr[ws[w][m + 1]])
       /\ LineOf(thr[ws[w][m + 1]][a + 1].address) = LineOf(thr[tid][a + 1].address)

\* the lanes and columns <<w, n, a>> that hold an access
Cells(thr, ws) ==
  { c \in (DOMAIN ws) \X (0 .. (hardware.warp_size - 1)) \X (0 .. (MaxTotal - 1)) :
      /\ c[2] < Len(ws[c[1]])
      /\ c[3] < Len(thr[ws[c[1]][c[2] + 1]]) }

\* C26 as stated: after the coalescing pass an access has width 0 if and only
\* if an earlier lane of its group has an access in the same column on the
\* same cache line; every other access has width > 0.
C26_WidthZeroIffAbsorbed ==
  fn.pc = "once" =>
    \A c \in Cells(fn.threads, fn.warps) :
      LET access == fn.threads[fn.warps[c[1]][c[2] + 1]][c[3] + 1]
      IN /\ access.width = 0 <=> AbsorbedBy(fn.threads, fn.warps, c[1], c[2], c[3])
         /\ access.width >= 0

\* what holds of the pass in warps of two lanes: the claim, when every
\* earlier lane read has an access in the column
WidthZeroIffAbsorbedInBounds ==
  (fn.pc = "once" /\ OutOfBoundsReads(fn.threads, fn.warps) = {}) =>
    \A c \in Cells(fn.threads, fn.warps) :
      LET access == fn.threads[fn.warps[c[1]][c[2] + 1]][c[3] + 1]
      IN access.width = 0 <=> AbsorbedBy(fn.threads, fn.warps, c[1], c[2], c[3])


(***************************************************************************)
(* SchedSpec : one call of schedule_threads, up to the coalescing pass,    *)
(* for small numbers of threads, block sizes, warp sizes and cores.        *)
(***************************************************************************)
MaxThreads == 7
MaxBlockSize == 5
MaxWarpSize == 3
MaxCores == 2

SchedInit ==
  /\ EngineOff
  /\ cl = [pc |-> "off"]
  /\ \E n \in 1 .. MaxThreads, bs \in 1 .. MaxBlockSize,
        ws \in 1 .. MaxWarpSize, nc \in 1 .. MaxCores :
       fn = [ pc |-> "call", num_threads |-> n, blocksize |-> bs,
              warp_size |-> ws, num_cores |-> nc,
              warps |-> <<>>, blocks |-> <<>>, cores |-> <<>> ]

SchedCall ==
  /\ fn.pc = "call"
  /\ LET r == ScheduleThreads(fn.num_threads, fn.blocksize, fn.warp_size,
                              fn.num_cores)
     IN fn' = [fn EXCEPT !.pc = "scheduled", !.warps = r.warps,
                         !.blocks = r.blocks, !.cores = r.cores]
  /\ UNCHANGED << engine_vars, cl >>

SchedNext == SchedCall

SchedSpec == SchedInit /\ [][SchedNext]_vars

\* the elements of the sequence q
Elements(q) == { q[i] : i \in DOMAIN q }

\* C27: schedule_threads places thread t in warp
\* (t mod block_size)/warp_size + (t/block_size)*num_warps_per_block, warp w
\* in block w/num_warps_per_block and block b in core b mod num_cores; every
\* thread is in exactly one warp, every warp holds at most warp_size threads
\* in ascending thread id, every block holds exactly num_warps_per_block
\* warps and every block is in exactly one core.
C27_Placement ==
  fn.pc = "scheduled" =>
    LET nwpb == CeilDiv(fn.blocksize, fn.warp_size)
    IN /\ \A t \in 0 .. (fn.num_threads - 1) :
            /\ t \in Elements(fn.warps[(t % fn.blocksize) \div fn.warp_size
                                        + (t \div fn.blocksize) * nwpb])
            /\ Cardinality({ w \in DOMAIN fn.warps : t \in Elements(fn.warps[w]) }) = 1
       /\ \A w \in DOMAIN fn.warps :
            /\ Len(fn.warps[w]) <= fn.warp_size
            /\ \A i, j \in DOMAIN fn.warps[w] : i < j => fn.warps[w][i] < fn.warps[w][j]
            /\ Elements(fn.warps[w]) \subseteq 0 .. (fn.num_threads - 1)
            /\ w \in Elements(fn.blocks[w \div nwpb])
            /\ Cardinality({ b \in DOMAIN fn.blocks : w \in Elements(fn.blocks[b]) }) = 1
       /\ \A b \in DOMAIN fn.blocks :
            /\ Len(fn.blocks[b]) = nwpb
            /\ Cardinality(Elements(fn.blocks[b])) = nwpb
            /\ Elements(fn.blocks[b]) \subseteq DOMAIN fn.warps
            /\ b \in Elements(fn.cores[b % fn.num_cores])
            /\ Cardinality({ c \in DOMAIN fn.cores : b \in Elements(fn.cores[c]) }) = 1
            /\ \A c \in DOMAIN fn.cores :
                 Cardinality({ i \in DOMAIN fn.cores[c] : fn.cores[c][i] = b }) <= 1

\* seven threads in blocks of five and warps of three on two cores: two
\* warps a block, the second warp of each block not full
C27_Witness ==
  /\ fn.pc = "scheduled"
  /\ fn.num_threads = 7
  /\ fn.blocksize = 5
  /\ fn.warp_size = 3
  /\ fn.num_cores = 2
  /\ fn.warps = (0 :> <<0, 1, 2>> @@ 1 :> <<3, 4>> @@ 2 :> <<5, 6>> @@ 3 :> <<>>)
  /\ fn.blocks = (0 :> <<0, 1>> @@ 1 :> <<2, 3>>)
  /\ fn.cores = (0 :> <<0>> @@ 1 :> <<1>>)


(***************************************************************************)
(* TreeSpec : one tree of 1 .. MaxLeaves leaves under any sequence of set  *)
(* (on a leaf that holds 0), unset (on a leaf that holds 1) and count.     *)
(* ones is the set of leaves the sequence has left at 1; before is the     *)
(* tree as it was when the last count was called.                          *)
(***************************************************************************)
MaxLeaves == 6

TreeInit ==
  /\ EngineOff
  /\ cl = [pc |-> "off"]
  /\ \E n \in 1 .. MaxLeaves :
       fn = [ pc |-> "tree", tree |-> Tree(n), ones |-> {},
              before |-> Tree(n), target |-> 0, result |-> 0 ]

TreeSetCall ==
  /\ fn.pc \in {"tree", "counted"}
  /\ \E target \in 0 .. (fn.tree.size - 1) :
       /\ target \notin fn.ones
       /\ fn' = [fn EXCEPT !.pc = "tree", !.tree = TreeSet(@, target),
                           !.ones = @ \cup {target}]
  /\ UNCHANGED << engine_vars, cl >>

TreeUnsetCall ==
  /\ fn.pc \in {"tree", "counted"}
  /\ \E target \in 0 .. (fn.tree.size - 1) :
       /\ target \in fn.ones
       /\ fn' = [fn EXCEPT !.pc = "tree", !.tree = TreeUnset(@, target),
                           !.ones = @ \ {target}]
  /\ UNCHANGED << engine_vars, cl >>

TreeCountCall ==
  /\ fn.pc \in {"tree", "counted"}
  /\ \E target \in 0 .. (fn.tree.size - 1) :
       fn' = [fn EXCEPT !.pc = "counted", !.before = fn.tree,
                        !.target = target,
                        !.result = TreeCount(fn.tree, target)]
  /\ UNCHANGED << engine_vars, cl >>

TreeNext == TreeSetCall \/ TreeUnsetCall \/ TreeCountCall

TreeSpec == TreeInit /\ [][TreeNext]_vars

\* C28: after any sequence of set (on a 0-leaf) and unset (on a 1-leaf) on a
\* tree of N leaves, count(target) returns, for every target in [0, N), the
\* number of leaves of value 1 whose index is strictly greater than target,
\* and leaves the tree as it was.
C28_CountIsOnesRightOfTarget ==
  /\ \A i \in 0 .. (fn.tree.size - 1) :
       NodeValue(fn.tree, <<i, 1>>) = (IF i \in fn.ones THEN 1 ELSE 0)
  /\ \A target \in 0 .. (fn.tree.size - 1) :
       TreeCount(fn.tree, target)
         = Cardinality({ i \in fn.ones : i > target })
  /\ fn.pc = "counted" =>
       /\ fn.result = Cardinality({ i \in (fn.target + 1) .. (fn.tree.size - 1) :
                                      NodeValue(fn.tree, <<i, 1>>) = 1 })
       /\ fn.tree = fn.before

\* a count in a tree of six leaves of which leaves 1, 3 and 5 hold 1: two
\* of them are right of leaf 1
C28_Witness ==
  /\ fn.pc = "counted"
  /\ fn.tree.size = 6
  /\ fn.ones = {1, 3, 5}
  /\ fn.target = 1
  /\ fn.result = 2
  /\ NodeValue(fn.tree, Root(fn.tree)) = 3


\* the binary digits of x, lowest first, as the loop of lines 206-214
\* produces them: n digits
RECURSIVE Digits(_, _)
Digits(x, n) == IF n = 0 THEN <<>> ELSE <<x % 2>> \o Digits(x \div 2, n - 1)

\* C29: line_addr_to_set is a function of line_addr and num_sets alone, and
\* in the Fermi mode its result is
\* (((b0 + 2 b1 + 4 b2 + 8 b3 + 16 b4) XOR (b6 + 2 b7 + 4 b8 + 8 b10 + 16 b12))
\*  + 32 b5) mod num_sets for the low 32 bits b0 .. b31 of line_addr.
C29_FermiFormula ==
  fn.pc = "returned" =>
    LET d == Digits(fn.line_addr, 32)
        b(i) == d[i + 1]
        x(i, j) == IF b(i) = b(j) THEN 0 ELSE 1
    IN fn.set = ( x(0, 6) + 2 * x(1, 7) + 4 * x(2, 8) + 8 * x(3, 10)
                  + 16 * x(4, 12) + 32 * b(5) ) % fn.num_sets

\* line 5153 = 2^12 + 2^10 + 2^5 + 1 with 8 sets: (1 XOR 24) + 32 = 57, set 1
C29_Witness ==
  /\ fn.pc = "returned"
  /\ fn.line_addr = 5153
  /\ fn.num_sets = 8
  /\ fn.set = 1


(***************************************************************************)
(* IssueSpec : reuse_distance with a note of who enqueued what.            *)
(* fn.issued[w] holds the miss requests warp w enqueued in its last take,  *)
(* fn.prev the ones it had enqueued in the take before the last warp       *)
(* taken, fn.takes the number of times each warp was taken.                *)
(***************************************************************************)
IssueInit ==
  /\ \/ \E f \in TraceFiles :
          LET raw == ReadFile(f[1], f[2])
          IN \E G \in SUBSET OutOfBoundsReads(raw, AssignWarps(Cardinality(DOMAIN raw))) :
               \E runs \in 0 .. (NUM_CASES - 1), mab \in MaxActiveBlocks :
                 EngineInit(raw, G, runs, mab)
     \/ \E raw \in SliceTraces :
          \E G \in SUBSET OutOfBoundsReads(raw, AssignWarps(Cardinality(DOMAIN raw))) :
            \E runs \in 0 .. (NUM_CASES - 1), mab \in MaxActiveBlocks :
              EngineInit(raw, G, runs, mab)
  /\ cl = [pc |-> "off"]
  /\ fn = [ pc |-> "issue", issued |-> [w \in DOMAIN warps |-> {}], prev |-> {} ]

\* the miss requests a slice enqueued, from what it logged
MissesOf(lg) ==
  { [time |-> lg[i].arrival_time, addr |-> lg[i].line, set |-> lg[i].set] :
      i \in { j \in DOMAIN lg : lg[j].queue = "miss" } }

IssueTakeWarp ==
  /\ TakeWarpStep
  /\ fn' = [fn EXCEPT !.issued[wnum'] = MissesOf(log'), !.prev = fn.issued[wnum']]

IssueNextSlice ==
  /\ NextSliceStep
  /\ fn' = [fn EXCEPT !.issued[wnum] = @ \cup MissesOf(log')]

IssueNext ==
  \/ StartWindow
  \/ IssueTakeWarp
  \/ IssueNextSlice
  \/ SliceDrain
  \/ EndTick
  \/ IdleTick
  \/ EndWindow
  \/ Finalize

IssueSpec == IssueInit /\ [][IssueNext]_vars

\* the requests queued for a miss
QueuedMisses ==
  UNION { { requests_miss[s].request_list[i] :
              i \in DOMAIN requests_miss[s].request_list } :
          s \in DOMAIN requests_miss }

\* C30: a warp never issues its next access while one of its own miss
\* requests is outstanding: every miss request the warp enqueued during one
\* take has been processed by process_requests (its arrival tick has passed,
\* it has left the queue and its line is among the completed ones) before the
\* warp is taken from the pool again.
C30_OwnMissesCompletedBeforeNextTake ==
  [][ (pc = "loop" /\ pc' = "drain") =>
        \A q \in fn.issued[wnum'] :
          /\ q.time < timestamp
          /\ q \notin QueuedMisses
          /\ q.addr \in completed
          /\ P[q.addr] # 0 ]_vars

\* a warp has been taken again after a take in which it enqueued a miss
C30_Witness ==
  /\ pc = "drain"
  /\ fn.pc = "issue"
  /\ fn.prev # {}
  /\ \E q \in fn.prev : q.time + 1 = timestamp
  /\ \E q \in fn.prev : q.time + 1 < timestamp


(***************************************************************************)
(* The MSHR count of a request queue                                       *)
(***************************************************************************)
\* the line addresses of the requests the queue r still holds
HeldLines(r) == { r.request_list[i].addr : i \in DOMAIN r.request_list }

\* C31: for every miss request queue, after any sequence of add and
\* get_requests, get_num_requests() equals the number of distinct line
\* addresses among the requests still held in the queue, also when the same
\* line address is outstanding under two arrival times and only one of them
\* has been returned by get_requests.
C31_NumRequestsIsDistinctHeldLines ==
  \A s \in DOMAIN requests_miss :
    get_num_requests(requests_miss[s]) = Cardinality(HeldLines(requests_miss[s]))

\* what holds of the count: it never exceeds the number of distinct lines
\* held
NumRequestsAtMostDistinctHeldLines ==
  \A s \in DOMAIN requests_miss :
    /\ requests_miss[s].unique_requests \subseteq HeldLines(requests_miss[s])
    /\ get_num_requests(requests_miss[s])
         <= Cardinality(HeldLines(requests_miss[s]))

(***************************************************************************)
(* Lock-step execution of a warp and the lanes of its slices               *)
(***************************************************************************)
\* LockSpec : reuse_distance for traces of four threads, two warps of two
\* lanes, in which the second lane of the second warp has up to two loads
\* and the other lanes at most one.
LockTraces ==
  { raw \in [0 .. 3 -> {<<>>} \cup { <<Access(k)>> : k \in Kinds }
                        \cup { <<Access(k), Access(l)>> : k, l \in Kinds }] :
      /\ Len(raw[0]) <= 1
      /\ raw[1] = <<>>
      /\ Len(raw[2]) <= 1
      /\ Len(raw[3]) >= 1 }

LockInit ==
  /\ \E raw \in LockTraces :
       \E G \in SUBSET OutOfBoundsReads(raw, AssignWarps(Cardinality(DOMAIN raw))) :
         \E runs \in 0 .. (NUM_CASES - 1), mab \in MaxActiveBlocks :
           EngineInit(raw, G, runs, mab)
  /\ cl = [pc |-> "off"]
  /\ fn = [pc |-> "off"]

LockSpec == LockInit /\ [][Next]_vars

\* the threads of warp w that have accesses left
Unexhausted(w) ==
  { tid \in Elements(warps[w]) : ~thread_is_done(threads, tpc, tid) }

\* C32: warps execute in lock-step: whenever a warp is taken from the pool,
\* all of its threads that are not exhausted have the same pc, also after
\* MSHR backpressure has unscheduled the warp's first thread and for access
\* sizes of 8 or 16 bytes that split the warp into several slices.
C32_LockStep ==
  [][ (pc = "loop" /\ pc' = "drain") =>
        \A t, u \in Unexhausted(wnum') : tpc[t] = tpc[u] ]_vars

\* what holds: a warp whose takes all ran as one slice is in lock-step
LockStepOfSingleSliceWarps ==
  [][ (pc = "loop" /\ pc' = "drain") =>
        \/ \E t \in Elements(warps[wnum']) : \E i \in DOMAIN threads[t] :
             threads[t][i].bytes >= 8
        \/ \A t, u \in Unexhausted(wnum') : tpc[t] = tpc[u] ]_vars


(***************************************************************************)
(* LaneSpec : the lanes the slices of one take visit (lines 153-160), for  *)
(* a warp of size threads on hardware of warp_size lanes whose first       *)
(* thread's next access is of bytes bytes.                                 *)
(***************************************************************************)
MaxLaneWarpSize == 8
MaxBytes == 16

\* line 154
PortionsOf(bytes) == Max(1, bytes \div 4)

\* lines 156-160 : the lanes of slice portion (warp_portion)
LanesOfSlice(portion, n_portions, warp_size, size) ==
  LET tnum_start == portion * (warp_size \div n_portions)
      tnum_stop == (portion + 1) * (warp_size \div n_portions)
  IN { tnum \in 0 .. (size - 1) : tnum_start <= tnum /\ tnum < tnum_stop }

\* lines 155-160 : the loop over the slices from portion on; v counts
\* the visits of each lane
RECURSIVE VisitsFrom(_, _, _, _, _)
VisitsFrom(v, portion, n_portions, warp_size, size) ==
  IF ~(portion < n_portions) THEN v
  ELSE VisitsFrom(
         [tnum \in DOMAIN v |->
            IF tnum \in LanesOfSlice(portion, n_portions, warp_size, size)
            THEN v[tnum] + 1 ELSE v[tnum]],
         portion + 1, n_portions, warp_size, size)

LaneInit ==
  /\ EngineOff
  /\ cl = [pc |-> "off"]
  /\ \E ws \in (1 .. MaxLaneWarpSize) \cup {32}, bytes \in 1 .. MaxBytes :
       \E size \in 1 .. ws :
         fn = [ pc |-> "take", warp_size |-> ws, size |-> size, bytes |-> bytes,
                portions |-> 0, visits |-> <<>> ]

LaneTake ==
  /\ fn.pc = "take"
  /\ fn' = [fn EXCEPT
              !.pc = "taken",
              !.portions = PortionsOf(fn.bytes),
              !.visits = VisitsFrom([tnum \in 0 .. (fn.size - 1) |-> 0], 0,
                                    PortionsOf(fn.bytes), fn.warp_size, fn.size)]
  /\ UNCHANGED << engine_vars, cl >>

LaneNext == LaneTake

LaneSpec == LaneInit /\ [][LaneNext]_vars

\* C33: in every take of a warp without backpressure, the slices
\* [p*(warp_size/portions), (p+1)*(warp_size/portions)) for p in
\* 0..portions-1 with portions = max(1, bytes/4) cover every lane of the warp
\* exactly once, so every non-exhausted thread of the warp is scheduled
\* exactly once per take for every access size bytes >= 1.
C33_SlicesCoverEveryLaneOnce ==
  fn.pc = "taken" => \A tnum \in 0 .. (fn.size - 1) : fn.visits[tnum] = 1

\* what holds: no lane is visited twice, and every lane is visited when the
\* number of slices divides the warp size
SlicesCoverWhenPortionsDivide ==
  fn.pc = "taken" =>
    /\ \A tnum \in 0 .. (fn.size - 1) : fn.visits[tnum] <= 1
    /\ fn.warp_size % fn.portions = 0
         => \A tnum \in 0 .. (fn.size - 1) : fn.visits[tnum] = 1


(***************************************************************************)
(* LatencySpec : reuse_distance called with any latency of a hit           *)
(* (non_mem_latency) and of a miss (mem_latency) up to MaxLatency.         *)
(***************************************************************************)
MaxLatency == 2

LatencyInit ==
  /\ \E f \in TraceFilesOf({ k \in Kinds : k.address # 16 }) :
       LET raw == ReadFile(f[1], f[2])
       IN \E G \in SUBSET OutOfBoundsReads(raw, AssignWarps(Cardinality(DOMAIN raw))) :
            \E ml \in 0 .. MaxLatency, nml \in 0 .. MaxLatency,
               mab \in MaxActiveBlocks :
              EngineInitCfg(raw, G,
                [RunConfig(0) EXCEPT !.mem_latency = ml, !.non_mem_latency = nml],
                ActiveBlocks(Len(AssignCore(Cardinality(DOMAIN raw))), mab))
  /\ cl = [pc |-> "off"]
  /\ fn = [pc |-> "off"]

LatencySpec == LatencyInit /\ [][Next]_vars

\* the requests the queues of the window hold
QueuedRequests ==
  SumFun([s \in DOMAIN requests_miss |->
            Len(requests_miss[s].request_list) + Len(requests_hit[s].request_list)],
         DOMAIN requests_miss)

\* the window's loop exits
WindowExit == pc = "loop" /\ pc' = "window"

\* C34 as stated: every request enqueued during an active-block window (hit
\* or miss, for any mem_latency and non_mem_latency) is completed exactly
\* once before that window's loop exits: when pool.is_done() becomes true all
\* hit and miss request queues of the window are empty, so no enqueued
\* request is discarded without updating P and the stack.
C34_QueuesEmptyAtWindowExit ==
  [][ WindowExit =>
        /\ QueuedRequests = 0
        /\ SumFun(completions, DOMAIN completions) = distances_total(distances)
    ]_vars

\* C34, amended: the same for any mem_latency and for a non_mem_latency of at
\* most 1 (main only ever passes 0)
C34_QueuesEmptyAtWindowExitForShortHits ==
  [][ (WindowExit /\ cfg.non_mem_latency <= 1) =>
        /\ QueuedRequests = 0
        /\ SumFun(completions, DOMAIN completions) = distances_total(distances)
    ]_vars

\* a window has ended after a miss of latency 2 and a hit of latency 1 were
\* enqueued and completed in it
C34_Witness ==
  /\ pc = "window"
  /\ snum > 0
  /\ cfg.mem_latency = 2
  /\ cfg.non_mem_latency = 1
  /\ QueuedRequests = 0
  /\ \E d \in DOMAIN distances : d # INF /\ distances[d] > 0
  /\ INF \in DOMAIN distances
  /\ SumFun(completions, DOMAIN completions) >= 2


(***************************************************************************)
(* The warps of a window and the pool                                      *)
(***************************************************************************)
\* C35: warp conservation in the pool: at the end of every loop iteration of
\* a window each warp of the window is in exactly one of three places (ready
\* queue, in-flight map, counted done), no warp appears twice in the ready
\* queue, and done + |ready| + |in-flight| equals the frozen pool size, so
\* done never exceeds size.
C35_WarpConservation ==
  pc = "loop" =>
    /\ pool.size = Cardinality(WindowWarps(snum))
    /\ Elements(pool.warps) \cup DOMAIN pool.in_flight \subseteq WindowWarps(snum)
    /\ Elements(pool.warps) \cap DOMAIN pool.in_flight = {}
    /\ Cardinality(Elements(pool.warps)) = Len(pool.warps)
    /\ pool.done + Len(pool.warps) + Cardinality(DOMAIN pool.in_flight) = pool.size
    /\ pool.done <= pool.size
    /\ \A w \in WindowWarps(snum) \ (Elements(pool.warps) \cup DOMAIN pool.in_flight) :
         \A tid \in Elements(warps[w]) : thread_is_done(threads, tpc, tid)

\* a window of two warps at the end of an iteration: one warp counted done,
\* the other in flight
C35_Witness ==
  /\ pc = "loop"
  /\ timestamp > 0
  /\ pool.size = 2
  /\ pool.done = 1
  /\ pool.warps = <<>>
  /\ Cardinality(DOMAIN pool.in_flight) = 1


(***************************************************************************)
(* The reads of the coalescing pass                                        *)
(***************************************************************************)
\* the reads <<tnum, old_tnum, a>> with which the scan of lane tnum of warp
\* w starts at column a (lines 77-79): the first earlier lane of the lane's
\* schedule group
FirstReads(thr, w) ==
  { r \in (0 .. (Len(w) - 1)) \X (0 .. (Len(w) - 1)) \X (0 .. MaxTotal) :
      /\ r[3] < Len(thr[w[r[1] + 1]])
      /\ LET sl == ScheduleLength(thr[w[r[1] + 1]][r[3] + 1].bytes)
         IN r[2] = sl * (r[1] \div sl)
      /\ r[2] < r[1] }

\* C36: during coalescing, whenever the access at column a of an earlier
\* thread of the warp is read for comparison, that earlier thread has more
\* than a accesses: no thread's access list is indexed out of bounds, also
\* when threads of the same warp have different numbers of accesses.
C36_ScanReadsInBounds ==
  fn.pc \in {"once", "twice"} =>
    \A wn \in DOMAIN fn.warps :
      \A r \in FirstReads(fn.threads, fn.warps[wn]) :
        Len(fn.threads[fn.warps[wn][r[2] + 1]]) > r[3]

\* what holds: the reads are in bounds in a warp all of whose threads have
\* the same number of accesses
ScanReadsInBoundsOfEvenWarps ==
  fn.pc \in {"once", "twice"} =>
    \A wn \in DOMAIN fn.warps :
      (\A t, u \in Elements(fn.warps[wn]) : Len(fn.threads[t]) = Len(fn.threads[u]))
        => /\ \A r \in FirstReads(fn.threads, fn.warps[wn]) :
                Len(fn.threads[fn.warps[wn][r[2] + 1]]) > r[3]
           /\ \A r \in OutOfBoundsReads(fn.threads, fn.warps) : WarpOf(r[1]) # wn


(***************************************************************************)
(* The warps that reach a pool                                             *)
(***************************************************************************)
\* the warps lines 121-129 put into the pools of the windows of core c: the
\* warps of the blocks of the core
PooledWarps(f, c) ==
  UNION { Elements(f.blocks[b]) : b \in Elements(f.cores[c]) }

\* C37: every warp that is put into a window's pool contains at least one
\* thread, so reading the warp's first thread (warps[wnum][0]) when the warp
\* is taken is always defined, also when the number of threads in the trace
\* is not a multiple of block_size and the last block is only partly filled.
C37_PooledWarpsHaveAThread ==
  fn.pc = "scheduled" =>
    \A c \in DOMAIN fn.cores : \A w \in PooledWarps(fn, c) :
      Len(fn.warps[w]) > 0

\* what holds: every pooled warp has a thread when the threads fill their
\* blocks
PooledWarpsOfFullBlocksHaveAThread ==
  (fn.pc = "scheduled" /\ fn.num_threads % fn.blocksize = 0) =>
    \A c \in DOMAIN fn.cores : \A w \in PooledWarps(fn, c) :
      Len(fn.warps[w]) > 0


(***************************************************************************)
(* The node values of the tree                                             *)
(***************************************************************************)
\* the nodes of the subtree of node n, as fill_tree builds them
RECURSIVE NodesFrom(_)
NodesFrom(n) ==
  IF IsLeaf(n) THEN {n} ELSE {n} \cup NodesFrom(Left(n)) \cup NodesFrom(Right(n))

\* the leaves below node n
LeavesOf(n) == n[1] .. (n[1] + n[2] - 1)

\* C38: after any sequence of set(t) on a leaf holding 0 and unset(t) on a
\* leaf holding 1, every leaf of the tree holds 0 or 1 and every internal
\* node's value equals the number of 1-leaves in its subtree (so root.value
\* is the number of 1-leaves); set(t) followed by unset(t) restores every
\* node value.
C38_NodeValuesCountOnes ==
  LET t == fn.tree
  IN /\ DOMAIN t.val \subseteq NodesFrom(Root(t))
     /\ \A i \in 0 .. (t.size - 1) : NodeValue(t, <<i, 1>>) \in {0, 1}
     /\ \A n \in NodesFrom(Root(t)) :
          NodeValue(t, n)
            = Cardinality({ i \in LeavesOf(n) : NodeValue(t, <<i, 1>>) = 1 })
     /\ NodeValue(t, Root(t)) = Cardinality(fn.ones)
     /\ \A target \in (0 .. (t.size - 1)) \ fn.ones :
          \A n \in NodesFrom(Root(t)) :
            NodeValue(TreeUnset(TreeSet(t, target), target), n) = NodeValue(t, n)

\* a tree of five leaves with leaves 0 and 4 at 1: the root counts two, the
\* right half one and the node over leaves 3 and 4 one
C38_Witness ==
  /\ fn.pc = "tree"
  /\ fn.tree.size = 5
  /\ fn.ones = {0, 4}
  /\ NodeValue(fn.tree, <<0, 5>>) = 2
  /\ NodeValue(fn.tree, <<3, 2>>) = 1
  /\ NodeValue(fn.tree, <<0, 3>>) = 1
  /\ NodeValue(fn.tree, <<2, 1>>) = 0


(***************************************************************************)
(* The indices handed to the trees                                         *)
(***************************************************************************)
\* C39: in every run and for every set s, every index passed to B[s].set,
\* B[s].unset or B[s].count is a valid leaf index of that tree:
\* set_counters[s] stays strictly below the tree size (per-set Phase-1 count
\* + STACK_EXTRA_SIZE) for the whole run.
C39_TreeIndicesValid ==
  \A s \in DOMAIN B :
    /\ set_counters[s] >= 1
    /\ set_counters[s] < B[s].size
    /\ set_counters[s] - 1 <= B[s].size - STACK_EXTRA_SIZE
    /\ set_counters[s] - 1 = completions[s]
    /\ \A l \in DOMAIN P :
         (P[l] # 0 /\ line_addr_to_set(l, cfg.cache_sets) = s)
           => /\ P[l] < set_counters[s]
              /\ NodeValue(B[s], <<P[l], 1>>) = 1
    /\ \A n \in DOMAIN B[s].val : n[1] >= 0 /\ n[1] + n[2] <= B[s].size

\* a run has ended in which a set's counter went as far as Phase 1 counted:
\* three requests in a tree of 3 + STACK_EXTRA_SIZE leaves
C39_Witness ==
  /\ pc = "done"
  /\ \E s \in DOMAIN B :
       /\ B[s].size = 3 + STACK_EXTRA_SIZE
       /\ set_counters[s] = 4

=============================================================================
